---- MODULE Spec2Model ----
(***************************************************************************)
(* Verification model of solana-token-validator.                          *)
(*                                                                         *)
(*  Spec      the detection -> queue -> worker pipeline of the monitors    *)
(*            (ComprehensivePumpMonitor, OptimizedPumpMonitor,             *)
(*            EnhancedPumpFunMonitor, WebSocketPumpMonitor)                *)
(*  SpecRisk  TokenAnalyzer.calculateRiskScore applied to bounded inputs   *)
(*  SpecOrch  TokenAnalyzer.analyzeToken as run by runFullAnalysis         *)
(***************************************************************************)
EXTENDS Integers, Naturals, Sequences, FiniteSets, TLC

VARIABLES
    \* ---- monitor state (fields of the monitor object) ----
    variant,              \* which monitor class this instance is
    tokenQueue,           \* this.tokenQueue: sequence of tokenEvent
    isAnalyzing,          \* this.isAnalyzing
    isStreaming,          \* this.isStreaming
    processedSignatures,  \* this.processedSignatures
    stats,                \* this.stats (the numeric counters)
    wsOpen,               \* the stream connection is open
    reconnectAt,          \* deadline of the pending reconnect timer (0: none)
    now,                  \* Date.now(), in ms since construction
    running,              \* the worker callbacks suspended at their await
    processedCount,       \* EnhancedSolanaTokenValidator.processedCount
    \* ---- observation of the pipeline (history) ----
    enqueuedLog,          \* signatures in the order they were pushed
    startedLog,           \* signatures in the order their analysis started
    lastOp,               \* which handler outcome produced this state
    lastSignature,        \* the signature of the notification it handled (0: none)
    \* ---- orchestrator state (one analyzeToken / runFullAnalysis run) ----
    caller,               \* who runs the analysis
    pc,                   \* the step the orchestrator is at
    options,              \* the include flags passed to analyzeToken
    checks,               \* analysis.checks built so far
    timerArmed,           \* the check whose setTimeout is pending ("none")
    awaiting,             \* the step whose collaborator call is awaited
    lateCalls,            \* collaborator calls abandoned by a timeout
    riskScore,            \* analysis.riskScore
    liquidity,            \* analysis.liquidity.overallStatus ("none": not set)
    safetyLevel,          \* analysis.safetyLevel ("none": not set)
    enhancedRiskScore,    \* analysis.enhancedRiskScore
    token,                \* what the collaborators answer about the token
    verdict,              \* the band label the caller displays ("none")
    \* ---- honeypot detection ----
    answers,              \* what the collaborators of the detector answer
    detection,            \* what detectHoneypot returned, and the check made of it
    \* ---- rate limit manager ----
    limiter,              \* creditsUsed, and the requests handed to mainLimiter
    \* ---- stream connection of a monitor ----
    conn,                 \* the socket, the promise of connectWebSocket, the process
    \* ---- the request made to an entry point ----
    requested,            \* the mintAddress and options its caller handed over
    \* ---- the utility classes ----
    util,                 \* BatchProcessor's semaphore and batches, or ApiUtils' request
    \* ---- input of the risk aggregator ----
    riskIn                \* a checks map handed to calculateRiskScore

monVars  == <<variant, tokenQueue, isAnalyzing, isStreaming, processedSignatures,
              stats, wsOpen, reconnectAt, now, running, processedCount,
              enqueuedLog, startedLog, lastOp, lastSignature>>
orchVars == <<caller, pc, options, checks, timerArmed, awaiting, lateCalls,
              riskScore, liquidity, safetyLevel, enhancedRiskScore, token,
              verdict, answers, detection, limiter, conn, requested, util>>
hpVars   == <<answers, detection>>
vars     == <<monVars, orchVars, riskIn>>

(***************************************************************************)
(* Bounds of the model                                                     *)
(***************************************************************************)
NumSigs     == 7        \* distinct signatures that ever match
TimeStep    == 12500    \* granularity of Date.now() in ms
MaxTime     == 37500    \* the clock stops here
MaxFiltered == 1        \* cap of stats.filtered
MaxCredits == 3      \* RATE_LIMITS.MAX_TOTAL_CREDITS, scaled down
MaxCost == 2         \* the largest credits argument of a request
BatchSize == 2       \* RATE_LIMITS.BATCH_SIZE, scaled down
MaxCalls == 4        \* requests handed to executeRequest in a behaviour
MaxFailed == 2       \* failed connection attempts counted (saturating)

Signatures == 1..NumSigs

(***************************************************************************)
(* Program constants                                                       *)
(***************************************************************************)
Variants == {"comprehensive", "optimized", "enhanced", "websocket"}

maxQueueSize(v) ==
    CASE v = "comprehensive" -> 6
      [] v = "optimized"     -> 5
      [] v = "enhanced"      -> 100
      [] v = "websocket"     -> 20

\* the monitors whose worker has the age gate
AgeGated(v) == v \in {"comprehensive", "optimized"}

analysisDelay(v) ==
    CASE v = "comprehensive" -> 25000
      [] v = "optimized"     -> 15000
      [] OTHER               -> 0

\* the reconnect delay of the 'close' handler; enhanced uses connection.onLogs
ReconnectDelay(v) ==
    CASE v = "comprehensive" -> 5000
      [] v = "optimized"     -> 5000
      [] v = "websocket"     -> 3000
      [] OTHER               -> 0

EnhancedDelay == 3000

HasSocket(v) == v # "enhanced"

(***************************************************************************)
(* Log lines and the creation predicates                                   *)
(***************************************************************************)
L_INIT == "Program log: Instruction: InitializeMint2"
L_CREATE == "Program log: Instruction: Create"
L_BUY == "Program log: Instruction: Buy"

\* String.prototype.includes on the log lines above (case sensitive)
Includes(line, pattern) ==
    CASE line = L_INIT   -> pattern \in {L_INIT, "InitializeMint2"}
      [] line = L_CREATE -> pattern \in {L_CREATE, "Create"}
      [] line = L_BUY    -> pattern \in {"Buy"}
      [] OTHER           -> FALSE

\* log.toLowerCase().includes(pattern.toLowerCase()) for the exclude patterns
IncludesLower(line, pattern) ==
    CASE line = L_BUY -> pattern = "Buy"
      [] OTHER        -> FALSE

isRealTokenCreation(logs) ==
    \E indicator \in {L_INIT, L_CREATE} :
        \E i \in 1..Len(logs) : Includes(logs[i], indicator)

isActualTokenCreation(logs) ==
    LET hasRequired  == \E p \in {L_INIT, L_CREATE} :
                            \E i \in 1..Len(logs) : Includes(logs[i], p)
        hasExclusion == \E i \in 1..Len(logs) :
                            \E p \in {"Swap", "Buy", "Sell", "Transfer", "Burn"} :
                                IncludesLower(logs[i], p)
    IN  IF ~hasRequired THEN FALSE ELSE ~hasExclusion

hasTokenCreationEnhanced(logs) ==
    \E i \in 1..Len(logs) :
        \/ Includes(logs[i], L_INIT)
        \/ Includes(logs[i], "InitializeMint2")
        \/ Includes(logs[i], "CreateToken")
        \/ (Includes(logs[i], "create") /\ Includes(logs[i], "mint"))

hasTokenCreationWebSocket(logs) ==
    \E i \in 1..Len(logs) :
        \/ Includes(logs[i], L_INIT)
        \/ Includes(logs[i], "InitializeMint2")
        \/ (Includes(logs[i], "Create") /\ Includes(logs[i], "mint"))

Matches(v, logs) ==
    CASE v = "comprehensive" -> isRealTokenCreation(logs)
      [] v = "optimized"     -> isActualTokenCreation(logs)
      [] v = "enhanced"      -> hasTokenCreationEnhanced(logs)
      [] v = "websocket"     -> hasTokenCreationWebSocket(logs)

\* the log lists a notification carries in this model
LogSamples == { <<L_INIT>>, <<L_INIT, L_BUY>>, <<L_BUY>> }

(***************************************************************************)
(* Queue helpers                                                           *)
(***************************************************************************)
QueueHasRoomOffByOne(q, v) == Len(q) <= maxQueueSize(v)

\* if (this.tokenQueue.length < this.maxQueueSize)
QueueHasRoom(q, v) == Len(q) < maxQueueSize(v)

ShiftLifo(q) == [event |-> q[Len(q)], rest |-> SubSeq(q, 1, Len(q) - 1)]

\* const tokenEvent = this.tokenQueue.shift()
Shift(q) == [event |-> Head(q), rest |-> Tail(q)]

UnshiftAtBack(q, ev) == Append(q, ev)

\* this.tokenQueue.unshift(tokenEvent)
Unshift(q, ev) == <<ev>> \o q

TooYoungWrongUnit(tokenAge, v) == tokenAge < analysisDelay(v) \div 1000

\* if (tokenAge < this.analysisDelay)
TooYoung(tokenAge, v) == tokenAge < analysisDelay(v)

WorkerGuardNoFlag == Len(tokenQueue) > 0

\* if (!this.isAnalyzing && this.tokenQueue.length > 0)
WorkerGuard == ~isAnalyzing /\ Len(tokenQueue) > 0

PausedNever == FALSE

\* if (!this.isStreaming) return;
Paused == ~isStreaming

\* this.processedSignatures.has(signature)
HasProcessed(s) == s \in processedSignatures

Sigs(q) == [i \in 1..Len(q) |-> q[i].signature]

\* signatures are opaque: the next signature that has never been recorded
FreshSig == Cardinality(processedSignatures) + 1



(***************************************************************************)
(* Check results and the risk aggregator (TokenAnalyzer.calculateRiskScore)*)
(***************************************************************************)
CheckNames == {"basicInfo", "authorities", "programOwnership", "metadata",
               "holders", "honeypot", "marketData"}

\* an entry of analysis.checks; present = FALSE: the map has no such key;
\* hasScore = FALSE: typeof result.score is not 'number'
Absent == [present |-> FALSE, hasScore |-> FALSE, score |-> 0,
           skipped |-> FALSE, issues |-> 0, warnings |-> 0]

\* a result with a numeric score, nIssues issues and nWarnings warnings
ResultW(sc, nIssues, nWarnings) ==
    [present |-> TRUE, hasScore |-> TRUE, score |-> sc,
     skipped |-> FALSE, issues |-> nIssues, warnings |-> nWarnings]

Result(sc, nIssues) == ResultW(sc, nIssues, 0)

\* the result a check's timer resolves with: issues [], one warning,
\* skipped: true
Skipped(sc) == [present |-> TRUE, hasScore |-> TRUE, score |-> sc,
                skipped |-> TRUE, issues |-> 0, warnings |-> 1]

NoScore == [present |-> TRUE, hasScore |-> FALSE, score |-> 0,
            skipped |-> FALSE, issues |-> 0, warnings |-> 0]

NoChecks == [c \in CheckNames |-> Absent]

\* a JavaScript number that is an integer, or NaN
Num(n) == [isNaN |-> FALSE, value |-> n]
NaN == [isNaN |-> TRUE, value |-> 0]
NotComputed == [isNaN |-> FALSE, value |-> -1]

weightsAllDefault(checkName) == 10

\* const weights = {...}; weights[checkName] || 10
weights(checkName) ==
    CASE checkName = "basicInfo"        -> 10
      [] checkName = "authorities"      -> 40
      [] checkName = "programOwnership" -> 20
      [] checkName = "metadata"         -> 5
      [] checkName = "holders"          -> 15
      [] checkName = "honeypot"         -> 30
      [] checkName = "marketData"       -> 5
      [] OTHER                          -> 10

CountedIgnoringSkip(result) == result.present /\ result.hasScore

\* if (result && typeof result.score === 'number' && !result.skipped)
Counted(result) == result.present /\ result.hasScore /\ ~result.skipped

\* the forEach over Object.entries(checks): totalScore when withScore,
\* totalWeight otherwise, accumulated over the entries in S
RECURSIVE Accumulate(_, _, _)
Accumulate(S, chk, withScore) ==
    IF S = {} THEN 0
    ELSE LET c == CHOOSE x \in S : TRUE
             w == weights(c)
         IN  (IF Counted(chk[c])
              THEN (IF withScore THEN chk[c].score * w ELSE w)
              ELSE 0) + Accumulate(S \ {c}, chk, withScore)

totalScore(chk) == Accumulate(CheckNames, chk, TRUE)

totalWeight(chk) == Accumulate(CheckNames, chk, FALSE)

\* Math.round(a / b) for a >= 0, b >= 0; 0 / 0 is NaN
RoundDiv(a, b) ==
    IF b = 0 THEN NaN ELSE Num((2 * a + b) \div (2 * b))

calculateRiskScoreNoFallback(chk) == RoundDiv(totalScore(chk), totalWeight(chk))

\* return totalWeight > 0 ? Math.round(totalScore / totalWeight) : 50
calculateRiskScore(chk) ==
    IF totalWeight(chk) > 0
    THEN RoundDiv(totalScore(chk), totalWeight(chk))
    ELSE Num(50)

\* the score a check resolves with when its timer fires
TimeoutScore(c) == IF c = "honeypot" THEN 50 ELSE 70

(***************************************************************************)
(* Verdicts                                                                *)
(***************************************************************************)
\* TokenAnalyzer.getSafetyLevel; the comparisons with NaN are all false
getSafetyLevel(score) ==
    IF score.isNaN THEN "DANGEROUS"
    ELSE IF score.value >= 80 THEN "SAFE"
    ELSE IF score.value >= 60 THEN "CAUTION"
    ELSE IF score.value >= 40 THEN "RISKY"
    ELSE "DANGEROUS"

\* EnhancedSolanaTokenValidator.getSafetyLevel
getSafetyLevelEnhanced(score) ==
    IF score.isNaN THEN "APPEARS SAFE"
    ELSE IF score.value >= 80 THEN "EXTREMELY DANGEROUS"
    ELSE IF score.value >= 60 THEN "HIGH RISK"
    ELSE IF score.value >= 40 THEN "MODERATE RISK"
    ELSE IF score.value >= 20 THEN "LOW RISK"
    ELSE "APPEARS SAFE"

\* the verdict of ComprehensivePumpMonitor.getFinalRecommendation
getFinalRecommendation(score) ==
    IF score.isNaN THEN "APPEARS SECURE"
    ELSE IF score.value >= 80 THEN "DO NOT TRADE"
    ELSE IF score.value >= 60 THEN "AVOID"
    ELSE IF score.value >= 40 THEN "PROCEED WITH EXTREME CAUTION"
    ELSE IF score.value >= 20 THEN "RELATIVELY SAFE"
    ELSE "APPEARS SECURE"

Min(a, b) == IF a <= b THEN a ELSE b

Max(a, b) == IF a >= b THEN a ELSE b

\* EnhancedSolanaTokenValidator.calculateEnhancedRisk;
\* `tokenAnalysis.riskScore || 50` takes 50 for 0 and for NaN
calculateEnhancedRisk(score, overallStatus) ==
    LET base == IF score.isNaN \/ score.value = 0 THEN 50 ELSE score.value
        adjusted == CASE overallStatus = "DANGEROUS" -> base + 30
                      [] overallStatus = "POOR"      -> base + 20
                      [] overallStatus = "EXCELLENT" -> base - 15
                      [] OTHER                       -> base
    IN  Num(Max(0, Min(100, adjusted)))

\* no collaborator answers drawn, no detection run
NoAnswers == [mint |-> "none"]

NoDetection == [verdict |-> "none"]
\* no rate limit manager in the run
NoLimiter == [creditsUsed |-> 0]
\* no stream connection in the run
NoConn == [socket |-> "none"]
\* no utility class in the run
NoUtil == [kind |-> "none"]
\* no entry point was called
NoRequest ==
    [mintAddress |-> "none",
     options |-> [includeMetadata |-> TRUE, includeHolderAnalysis |-> TRUE,
                  includeHoneypotDetection |-> TRUE, includeMarketData |-> TRUE]]

\* no token facts drawn
NoToken == [mintAuthority |-> FALSE, freezeAuthority |-> FALSE,
            owner |-> "standard", top1 |-> 0, top10 |-> 0, hhi |-> 0,
            programHolders |-> 0, secured |-> 0, pools |-> 0,
            overall |-> 0]

(***************************************************************************)
(* The monitor: state after startMonitoring has connected and installed    *)
(* the worker interval                                                     *)
(***************************************************************************)
ZeroStats == [detected |-> 0, analyzed |-> 0, queued |-> 0, skipped |-> 0,
              filtered |-> 0, failed |-> 0]

OrchIdle ==
    /\ caller = "none"
    /\ pc = "idle"
    /\ options = [includeMetadata |-> TRUE, includeHolderAnalysis |-> TRUE,
                  includeHoneypotDetection |-> TRUE, includeMarketData |-> FALSE]
    /\ checks = NoChecks
    /\ timerArmed = "none"
    /\ awaiting = "none"
    /\ lateCalls = {}
    /\ riskScore = NotComputed
    /\ liquidity = "none"
    /\ safetyLevel = "none"
    /\ enhancedRiskScore = NotComputed
    /\ token = NoToken
    /\ verdict = "none"
    /\ answers = NoAnswers
    /\ detection = NoDetection
    /\ limiter = NoLimiter
    /\ conn = NoConn
    /\ requested = NoRequest
    /\ util = NoUtil

MonitorIdle ==
    /\ variant = "comprehensive"
    /\ tokenQueue = <<>>
    /\ isAnalyzing = FALSE
    /\ isStreaming = TRUE
    /\ processedSignatures = {}
    /\ stats = ZeroStats
    /\ wsOpen = TRUE
    /\ reconnectAt = 0
    /\ now = 0
    /\ running = {}
    /\ processedCount = 0
    /\ enqueuedLog = <<>>
    /\ startedLog = <<>>
    /\ lastOp = "init"
    /\ lastSignature = 0

Init ==
    /\ variant \in Variants
    /\ tokenQueue = <<>>
    /\ isAnalyzing = FALSE
    /\ isStreaming = TRUE
    /\ processedSignatures = {}
    /\ stats = ZeroStats
    /\ wsOpen = TRUE
    /\ reconnectAt = 0
    /\ now = 0
    /\ running = {}
    /\ processedCount = 0
    /\ enqueuedLog = <<>>
    /\ startedLog = <<>>
    /\ lastOp = "init"
    /\ lastSignature = 0
    /\ OrchIdle
    /\ riskIn = NoChecks

\* the signature is added only when the event is pushed
AddsSignatureWhenQueued(hasRoom) == hasRoom

\* this.processedSignatures.add(signature) stands ahead of the capacity test
AddsSignature(hasRoom) == TRUE

\* handleMessage + processTokenCreation / processLogEvent / processLogNotification,
\* and handlePumpFunLog of the enhanced monitor, for one logsNotification
HandleMessage(s, logs) ==
    /\ wsOpen
    /\ lastSignature' = s
    /\ UNCHANGED <<variant, isAnalyzing, isStreaming, wsOpen, reconnectAt, now,
                   running, processedCount, startedLog>>
    /\ IF Paused
       THEN /\ lastOp' = "ignored"
            /\ UNCHANGED <<tokenQueue, processedSignatures, stats, enqueuedLog>>
       ELSE IF HasProcessed(s)
       THEN /\ lastOp' = "duplicate"
            /\ UNCHANGED <<tokenQueue, processedSignatures, stats, enqueuedLog>>
       ELSE IF ~Matches(variant, logs)
       THEN /\ lastOp' = "filtered"
            /\ stats' = IF variant = "optimized"
                        THEN [stats EXCEPT !.filtered = @ + 1]
                        ELSE stats
            /\ UNCHANGED <<tokenQueue, processedSignatures, enqueuedLog>>
       ELSE LET tokenEvent == [signature |-> s, detectedAt |-> now]
                hasRoom    == QueueHasRoom(tokenQueue, variant)
            IN  /\ processedSignatures' = IF AddsSignature(hasRoom)
                                          THEN processedSignatures \cup {s}
                                          ELSE processedSignatures
                /\ IF hasRoom
                   THEN /\ tokenQueue' = Append(tokenQueue, tokenEvent)
                        /\ enqueuedLog' = Append(enqueuedLog, s)
                        /\ stats' = IF variant = "enhanced"
                                    THEN [stats EXCEPT !.detected = @ + 1,
                                                       !.queued = @ + 1]
                                    ELSE [stats EXCEPT !.detected = @ + 1]
                        /\ lastOp' = "queued"
                   ELSE /\ stats' = IF variant = "enhanced"
                                    THEN [stats EXCEPT !.detected = @ + 1,
                                                       !.skipped = @ + 1]
                                    ELSE [stats EXCEPT !.detected = @ + 1]
                        /\ lastOp' = "dropped"
                        /\ UNCHANGED <<tokenQueue, enqueuedLog>>

\* a notification arrives: a replay of a recorded signature, or a signature
\* never recorded before (named in the order of recording)
Notification ==
    \E s \in Signatures, logs \in LogSamples :
        /\ s \in processedSignatures \cup {FreshSig}
        /\ (~Matches(variant, logs) /\ variant = "optimized" /\ isStreaming
              /\ s \notin processedSignatures)
             => stats.filtered < MaxFiltered
        /\ HandleMessage(s, logs)
        /\ UNCHANGED <<orchVars, riskIn>>

ClearOnlyOnResult(outcome) == outcome # "stored"

\* finally { this.isAnalyzing = false; }
FlagAfterAnalysis(outcome) == FALSE

\* how the awaited analysis ended inside its own try/catch
InnerOutcomes == {"stored", "noMint", "error"}

\* the setInterval callback up to its await
WorkerTick ==
    /\ WorkerGuard
    /\ LET sh       == Shift(tokenQueue)
           ev       == sh.event
           tokenAge == now - ev.detectedAt
       IN  IF AgeGated(variant) /\ TooYoung(tokenAge, variant)
           THEN /\ tokenQueue' = Unshift(sh.rest, ev)
                /\ isAnalyzing' = FALSE
                /\ lastOp' = "putback"
                /\ lastSignature' = 0
                /\ UNCHANGED <<running, startedLog, stats, processedCount>>
           ELSE /\ tokenQueue' = sh.rest
                /\ isAnalyzing' = TRUE
                /\ running' = running \cup
                       {[signature |-> ev.signature, age |-> tokenAge,
                         wake |-> IF variant = "enhanced"
                                  THEN now + EnhancedDelay ELSE 0]}
                /\ startedLog' = Append(startedLog, ev.signature)
                /\ lastOp' = "start"
                /\ lastSignature' = 0
                /\ IF variant = "enhanced"
                   THEN /\ processedCount' = processedCount + 1
                        /\ stats' = [stats EXCEPT !.analyzed = @ + 1]
                   ELSE UNCHANGED <<stats, processedCount>>
    /\ UNCHANGED <<variant, isStreaming, processedSignatures, wsOpen, reconnectAt,
                   now, enqueuedLog, orchVars, riskIn>>

\* the callback resumes after await runFullAnalysis / analyzeAgedToken /
\* analyzeRealToken: these catch every error, so the await never rejects
AnalysisSettles ==
    /\ variant # "enhanced"
    /\ \E r \in running, outcome \in InnerOutcomes :
        /\ running' = running \ {r}
        /\ stats' = [stats EXCEPT !.analyzed = @ + 1]
        /\ isAnalyzing' = FlagAfterAnalysis(outcome)
        /\ lastOp' = IF outcome = "stored" THEN "settled" ELSE "settledFailed"
        /\ lastSignature' = 0
    /\ UNCHANGED <<variant, tokenQueue, isStreaming, processedSignatures, wsOpen,
                   reconnectAt, now, processedCount, enqueuedLog, startedLog,
                   orchVars, riskIn>>

\* enhanced monitor: the 3000 ms timer of the worker's await fires
DelayElapsed ==
    /\ variant = "enhanced"
    /\ \E r \in running :
        /\ now >= r.wake
        /\ running' = running \ {r}
        /\ isAnalyzing' = FlagAfterAnalysis("stored")
        /\ lastOp' = "settled"
        /\ lastSignature' = 0
    /\ UNCHANGED <<variant, tokenQueue, isStreaming, processedSignatures, stats,
                   wsOpen, reconnectAt, now, processedCount, enqueuedLog,
                   startedLog, orchVars, riskIn>>

ClearOnReconnect == {}

\* connectWebSocket creates a new WebSocket; nothing else of the monitor is reset
ProcessedAfterReconnect == processedSignatures

\* the 'close' handler: setTimeout(() => this.connectWebSocket(), delay)
ConnectionClose ==
    /\ HasSocket(variant)
    /\ wsOpen
    /\ wsOpen' = FALSE
    /\ reconnectAt' = now + ReconnectDelay(variant)
    /\ lastOp' = "close"
    /\ lastSignature' = 0
    /\ UNCHANGED <<variant, tokenQueue, isAnalyzing, isStreaming,
                   processedSignatures, stats, now, running, processedCount,
                   enqueuedLog, startedLog, orchVars, riskIn>>

\* the reconnect timer fires and the new socket opens
Reconnect ==
    /\ ~wsOpen
    /\ now >= reconnectAt
    /\ wsOpen' = TRUE
    /\ reconnectAt' = 0
    /\ processedSignatures' = ProcessedAfterReconnect
    /\ lastOp' = "reconnect"
    /\ lastSignature' = 0
    /\ UNCHANGED <<variant, tokenQueue, isAnalyzing, isStreaming, stats, now,
                   running, processedCount, enqueuedLog, startedLog, orchVars,
                   riskIn>>

\* operator command 's'
ToggleStreaming ==
    /\ isStreaming' = ~isStreaming
    /\ lastOp' = "toggle"
    /\ lastSignature' = 0
    /\ UNCHANGED <<variant, tokenQueue, isAnalyzing, processedSignatures, stats,
                   wsOpen, reconnectAt, now, running, processedCount, enqueuedLog,
                   startedLog, orchVars, riskIn>>

\* the clock
AdvanceTime ==
    /\ now + TimeStep <= MaxTime
    /\ now' = now + TimeStep
    /\ lastOp' = "time"
    /\ lastSignature' = 0
    /\ UNCHANGED <<variant, tokenQueue, isAnalyzing, isStreaming,
                   processedSignatures, stats, wsOpen, reconnectAt, running,
                   processedCount, enqueuedLog, startedLog, orchVars, riskIn>>

Next ==
    \/ Notification
    \/ WorkerTick
    \/ AnalysisSettles
    \/ DelayElapsed
    \/ ConnectionClose
    \/ Reconnect
    \/ ToggleStreaming
    \/ AdvanceTime

Spec == Init /\ [][Next]_vars


(***************************************************************************)
(* Properties of the pipeline                                              *)
(***************************************************************************)
NoDuplicates(seq) == \A i, j \in 1..Len(seq) : seq[i] = seq[j] => i = j

IsPrefix(a, b) == Len(a) <= Len(b) /\ \A i \in 1..Len(a) : a[i] = b[i]

HeadReady ==
    /\ Len(tokenQueue) > 0
    /\ ~(AgeGated(variant) /\ now - tokenQueue[1].detectedAt < analysisDelay(variant))

\* the fields of the monitor object
monitorState == <<tokenQueue, isAnalyzing, isStreaming, processedSignatures,
                  stats, running, processedCount>>

\* C1: at most one analysis is in flight at any time, in every monitor
\* variant: the started-and-not-ended analyses never number more than one.
C1_SingleFlight == Cardinality(running) <= 1

\* an analysis is in flight while the next event is queued and ready
C1_Witness == Cardinality(running) = 1 /\ HeadReady /\ lastOp = "time"

\* C2: the queue never holds more than maxQueueSize events, and a detection
\* that finds the queue full leaves the queue contents unchanged.
C2_Capacity ==
    /\ [](Len(tokenQueue) <= maxQueueSize(variant))
    /\ [][lastOp' = "dropped" => tokenQueue' = tokenQueue]_vars

\* a detection was rejected by a full queue
C2_Witness == lastOp = "dropped" /\ Len(tokenQueue) = maxQueueSize(variant)

\* C3: a signature is pushed onto the queue at most once, processedSignatures
\* only grows (a reconnect included), and a notification whose signature is
\* already recorded changes nothing of the monitor.
C3_AtMostOnce ==
    /\ [](NoDuplicates(enqueuedLog))
    /\ [][processedSignatures \subseteq processedSignatures']_vars
    /\ [][lastOp' = "duplicate" => UNCHANGED monitorState]_vars

\* a replay of a signature whose event was already dequeued is dropped
C3_Witness == lastOp = "duplicate" /\ Len(startedLog) > 0 /\ tokenQueue = <<>>

\* C4: in the comprehensive and optimized monitors every analysis the worker
\* starts is for an event at least analysisDelay old at that moment.
C4_AgeGate ==
    \A r \in running : AgeGated(variant) => r.age >= analysisDelay(variant)

\* the optimized worker started an analysis of an aged event
C4_Witness ==
    /\ variant = "optimized"
    /\ lastOp = "start"
    /\ \E r \in running : r.age >= analysisDelay(variant)

\* C5: a worker cycle that finds the oldest event too young leaves the queue
\* exactly as it was, the in-flight flag false, and starts no analysis.
C5_PutBack ==
    [][lastOp' = "putback" =>
          /\ tokenQueue' = tokenQueue
          /\ isAnalyzing' = FALSE
          /\ running' = running
          /\ startedLog' = startedLog]_vars

\* a too-young head was put back ahead of a later-enqueued event
C5_Witness == lastOp = "putback" /\ Len(tokenQueue) >= 2

\* C6: events are handed to analysis in the order they were enqueued.
C6_Fifo == IsPrefix(startedLog, enqueuedLog)

\* two analyses were started in an age-gated monitor with an event still queued
C6_Witness == AgeGated(variant) /\ Len(startedLog) >= 2 /\ Len(tokenQueue) >= 1

\* C7: a matching detection that finds the queue full is dropped, a drop
\* counter is incremented by one and the queue length stays at capacity.
C7_DropCounted ==
    [][lastOp' = "dropped" =>
          /\ Len(tokenQueue') = maxQueueSize(variant)
          /\ stats'.skipped = stats.skipped + 1]_vars

\* C8: the in-flight flag is clear whenever no analysis is in flight, however
\* the last analysis ended, so a worker tick with a queued event proceeds.
C8_FlagCleared ==
    running = {} => (~isAnalyzing /\ (Len(tokenQueue) > 0 => WorkerGuard))

\* an analysis that failed internally has ended and the next event is queued
C8_Witness == lastOp = "settledFailed" /\ running = {} /\ Len(tokenQueue) > 0


(***************************************************************************)
(* SpecRisk: calculateRiskScore applied to a checks map                    *)
(***************************************************************************)
\* the scores each check can produce (its return statements)
Scores(c) ==
    CASE c = "basicInfo"        -> {0, 100}
      [] c = "authorities"      -> {0, 20, 60, 100}
      [] c = "programOwnership" -> {0, 20, 100}
      [] c = "metadata"         -> {0, 85, 100}
      [] c = "holders"          -> {0, 55, 100}
      [] c = "honeypot"         -> {0, 30, 50, 100}
      [] c = "marketData"       -> {50, 100}

\* what an entry of the checks map can be
Entries(c) ==
    {Absent, NoScore, Skipped(TimeoutScore(c))} \cup {Result(sc, 0) : sc \in Scores(c)}

\* a checks map from its seven entries
ChecksMap(b, a, p, m, h, hp, md) ==
    [c \in CheckNames |->
        CASE c = "basicInfo"        -> b
          [] c = "authorities"      -> a
          [] c = "programOwnership" -> p
          [] c = "metadata"         -> m
          [] c = "holders"          -> h
          [] c = "honeypot"         -> hp
          [] c = "marketData"       -> md]

InitRisk ==
    /\ MonitorIdle
    /\ OrchIdle
    /\ \E b \in Entries("basicInfo"), a \in Entries("authorities"),
          p \in Entries("programOwnership"), m \in Entries("metadata"),
          h \in Entries("holders"), hp \in Entries("honeypot"),
          md \in Entries("marketData") :
            riskIn = ChecksMap(b, a, p, m, h, hp, md)

\* analysis.riskScore = this.calculateRiskScore(checks)
Aggregate ==
    /\ pc = "idle"
    /\ riskScore' = calculateRiskScore(riskIn)
    /\ pc' = "aggregated"
    /\ UNCHANGED <<monVars, caller, options, checks, timerArmed, awaiting,
                   lateCalls, liquidity, safetyLevel, enhancedRiskScore, token,
                   verdict, hpVars, limiter, conn, requested, util,
                   riskIn>>

NextRisk == Aggregate

SpecRisk == InitRisk /\ [][NextRisk]_vars


(***************************************************************************)
(* SpecOrch: one analysis run, from the caller's first await to its end    *)
(***************************************************************************)
\* who calls TokenAnalyzer.analyzeToken
\* "external": a script that calls tokenAnalyzer.analyzeToken itself
Callers == {"runFullAnalysis", "analyzeRealToken", "enhancedValidator", "validator",
            "external"}

\* the options object each caller passes; includeX !== false
OptionsOf(c) ==
    CASE c = "runFullAnalysis" ->
           [includeMetadata |-> TRUE, includeHolderAnalysis |-> TRUE,
            includeHoneypotDetection |-> TRUE, includeMarketData |-> FALSE]
      [] c = "analyzeRealToken" ->
           [includeMetadata |-> TRUE, includeHolderAnalysis |-> FALSE,
            includeHoneypotDetection |-> TRUE, includeMarketData |-> FALSE]
      [] OTHER ->
           [includeMetadata |-> TRUE, includeHolderAnalysis |-> TRUE,
            includeHoneypotDetection |-> TRUE, includeMarketData |-> TRUE]

\* options objects a caller may hand over ({}: nothing disabled; one flag
\* false; the pair of flags the test script disables)
Requests ==
    {r \in [includeMetadata : BOOLEAN, includeHolderAnalysis : BOOLEAN,
            includeHoneypotDetection : BOOLEAN, includeMarketData : BOOLEAN] :
        \/ Cardinality({f \in DOMAIN r : ~r[f]}) <= 1
        \/ {f \in DOMAIN r : ~r[f]} = {"includeHolderAnalysis",
                                        "includeHoneypotDetection"}}

\* what the caller is asked for: analyzeToken is called with an address,
\* well-formed or not, and an options object; the monitors are handed a
\* token event and build their own options
RequestsOf(c) ==
    CASE c \in {"runFullAnalysis", "analyzeRealToken"} ->
           {[mintAddress |-> "none", options |-> OptionsOf(c)]}
      [] c = "external" -> [mintAddress : {"valid"}, options : Requests]
      [] OTHER -> [mintAddress : {"valid", "malformed"}, options : Requests]

\* the options that reach TokenAnalyzer.analyzeToken: both validators declare
\* analyzeToken(mintAddress) and do not forward a second argument
OptionsPassed(c, req) == IF c = "external" THEN req.options ELSE OptionsOf(c)

\* the awaits of a run, in program order
StepOrder == <<"extractMint", "basicInfo", "authorities", "programOwnership",
               "metadata", "holders", "honeypot", "marketData", "liquidity">>

\* whether the caller with these options reaches the step
StepEnabled(c, opts, step) ==
    CASE step = "extractMint" -> c \in {"runFullAnalysis", "analyzeRealToken"}
      [] step = "metadata"    -> opts.includeMetadata
      [] step = "holders"     -> opts.includeHolderAnalysis
      [] step = "honeypot"    -> opts.includeHoneypotDetection
      [] step = "marketData"  -> opts.includeMarketData
      [] step = "liquidity"   -> c \in {"runFullAnalysis", "enhancedValidator"}
      [] OTHER                -> TRUE

StepIndex(step) == CHOOSE i \in 1..Len(StepOrder) : StepOrder[i] = step

\* the first await after position i, or "finished"
StepAfter(c, opts, i) ==
    LET later == {j \in (i + 1)..Len(StepOrder) : StepEnabled(c, opts, StepOrder[j])}
    IN  IF later = {} THEN "finished"
        ELSE StepOrder[CHOOSE j \in later : \A k \in later : j <= k]

\* SolanaService.isValidPublicKey: new PublicKey(address) does not throw
isValidPublicKey(address) == address = "valid"

ValidatesIdentityNever(c) == FALSE

\* the callers that test isValidPublicKey(mintAddress) before anything else
ValidatesIdentity(c) == c \in {"validator", "enhancedValidator"}

\* if (!solanaService.isValidPublicKey(mintAddress)) throw new Error(...)
FirstStep(c, req) ==
    IF ValidatesIdentity(c) /\ ~isValidPublicKey(req.mintAddress)
    THEN "rejected"
    ELSE StepAfter(c, OptionsPassed(c, req), 0)

\* the steps that wrap their collaborator call in a setTimeout race
TimedSteps == {"metadata", "holders", "honeypot", "marketData"}

TimerFor(step) == IF step \in TimedSteps THEN step ELSE "none"

\* the run is the await of a monitor's worker callback
ByWorker(c) == c \in {"runFullAnalysis", "analyzeRealToken"}

\* what the awaited collaborator call can answer at each step
Answers(step) ==
    CASE step = "extractMint"      -> {"mint", "null"}
      [] step = "basicInfo"        -> {"found"}
      [] step = "authorities"      -> {"issues0", "issues1", "issues2"}
      [] step = "programOwnership" -> {"standard", "nonStandard", "notFound"}
      [] step = "metadata"         -> {"warnings0", "warnings3"}
      [] step = "holders"          -> {"score100", "score55", "score0"}
      [] step = "honeypot"         -> {"overall0", "overall50", "overall100"}
      [] step = "marketData"       -> {"price", "noPrice"}
      [] step = "liquidity"        -> {"POOR", "NO_LIQUIDITY"}

\* the result object the check resolves with for an answer
ResultOf(step, ans) ==
    CASE ans = "found"       -> Result(100, 0)
      [] ans = "issues0"     -> Result(Max(0, 100 - 0 * 40), 0)
      [] ans = "issues1"     -> Result(Max(0, 100 - 1 * 40), 1)
      [] ans = "issues2"     -> Result(Max(0, 100 - 2 * 40), 2)
      [] ans = "standard"    -> Result(100, 0)
      [] ans = "nonStandard" -> Result(20, 1)
      [] ans = "notFound"    -> Result(0, 1)
      [] ans = "warnings0"   -> Result(Max(0, 100 - 0 * 5), 0)
      [] ans = "warnings3"   -> ResultW(Max(0, 100 - 3 * 5), 0, 3)
      [] ans = "score100"    -> Result(100, 0)
      [] ans = "score55"     -> Result(55, 1)
      [] ans = "score0"      -> Result(0, 1)
      [] ans = "overall0"    -> Result(Max(0, 100 - 0), 0)
      [] ans = "overall50"   -> ResultW(Max(0, 100 - 50), 0, 1)
      [] ans = "overall100"  -> Result(Max(0, 100 - 100), 1)
      [] ans = "price"       -> Result(100, 0)
      [] ans = "noPrice"     -> ResultW(50, 0, 1)

\* the result object of the check's catch block
ErrorResult(step) ==
    CASE step = "honeypot"   -> Result(30, 1)
      [] step = "marketData" -> ResultW(50, 0, 1)
      [] OTHER               -> Result(0, 1)

TimeoutResultAsError(step) == ErrorResult(step)

\* the result object the check's timer resolves with
TimeoutResult(step) == Skipped(TimeoutScore(step))


\* the monitor whose worker awaits the run
VariantOf(c) == IF c = "analyzeRealToken" THEN "websocket" ELSE "comprehensive"

\* the state in which the caller has reached its first await: for the two
\* worker callers, the worker has shifted event 1 and set isAnalyzing
InitOrch ==
    /\ caller \in Callers
    /\ requested \in RequestsOf(caller)
    /\ util = NoUtil
    /\ options = OptionsPassed(caller, requested)
    /\ pc = "called"
    /\ awaiting = "none"
    /\ timerArmed = "none"
    /\ checks = NoChecks
    /\ lateCalls = {}
    /\ riskScore = NotComputed
    /\ liquidity = "none"
    /\ safetyLevel = "none"
    /\ enhancedRiskScore = NotComputed
    /\ token = NoToken
    /\ verdict = "none"
    /\ answers = NoAnswers
    /\ detection = NoDetection
    /\ limiter = NoLimiter
    /\ conn = NoConn
    /\ riskIn = NoChecks
    /\ variant = VariantOf(caller)
    /\ tokenQueue = <<>>
    /\ isStreaming = TRUE
    /\ wsOpen = TRUE
    /\ reconnectAt = 0
    /\ now = analysisDelay(variant)
    /\ processedCount = 0
    /\ IF ByWorker(caller)
       THEN /\ isAnalyzing = TRUE
            /\ processedSignatures = {1}
            /\ stats = [ZeroStats EXCEPT !.detected = 1]
            /\ running = {[signature |-> 1, age |-> now, wake |-> 0]}
            /\ enqueuedLog = <<1>>
            /\ startedLog = <<1>>
            /\ lastOp = "start"
            /\ lastSignature = 0
       ELSE /\ isAnalyzing = FALSE
            /\ processedSignatures = {}
            /\ stats = ZeroStats
            /\ running = {}
            /\ enqueuedLog = <<>>
            /\ startedLog = <<>>
            /\ lastOp = "init"
            /\ lastSignature = 0

\* the run ends: a worker's callback resumes, counts the analysis and runs
\* its finally block
EndRun(outcome) ==
    IF ByWorker(caller)
    THEN /\ running' = {}
         /\ stats' = [stats EXCEPT !.analyzed = @ + 1]
         /\ isAnalyzing' = FlagAfterAnalysis(outcome)
    ELSE UNCHANGED <<running, stats, isAnalyzing>>

AfterEachCheck(step, next) == step \in CheckNames

\* the await of the last enabled check has resumed: analyzeToken reaches
\* analysis.riskScore = this.calculateRiskScore(analysis.checks)
AllChecksDone(step, next) == step \in CheckNames /\ next \notin CheckNames

\* the enhanced score written over analysis.riskScore
WithLiquidityOverwriting(score, liq) == calculateEnhancedRisk(score, liq)

\* analysis.liquidity = liquidityAnalysis: a field of its own, riskScore stays
WithLiquidity(score, liq) == score

\* the await at `step` resumes: the run continues to its next await, and
\* after the last check analyzeToken aggregates the score
Advance(step, chk, liq) ==
    LET next == StepAfter(caller, options, StepIndex(step))
    IN  /\ checks' = chk
        /\ liquidity' = liq
        /\ riskScore' = IF AllChecksDone(step, next)
                        THEN calculateRiskScore(chk)
                        ELSE IF step = "liquidity"
                        THEN WithLiquidity(riskScore, liq)
                        ELSE riskScore
        /\ safetyLevel' = IF AllChecksDone(step, next)
                          THEN getSafetyLevel(calculateRiskScore(chk))
                          ELSE safetyLevel
        /\ enhancedRiskScore' =
               IF step = "liquidity" /\ caller = "enhancedValidator"
               THEN calculateEnhancedRisk(riskScore, liq)
               ELSE enhancedRiskScore
        /\ pc' = next
        /\ awaiting' = IF next = "finished" THEN "none" ELSE next
        /\ timerArmed' = TimerFor(next)
        /\ IF next = "finished"
           THEN EndRun("stored")
           ELSE UNCHANGED <<running, stats, isAnalyzing>>

\* if (!tokenMint) return;  and the catch of the caller
Abandon(outcome) ==
    /\ pc' = "finished"
    /\ awaiting' = "none"
    /\ timerArmed' = "none"
    /\ EndRun(outcome)
    /\ UNCHANGED <<checks, liquidity, riskScore, safetyLevel, enhancedRiskScore>>

orchFrame == <<caller, options, riskIn, token, verdict, hpVars, limiter, conn,
               requested, util, variant, tokenQueue, isStreaming, wsOpen,
               reconnectAt, now, processedCount, processedSignatures,
               enqueuedLog, startedLog, lastSignature>>

\* the entry point runs up to its first await: the validators test the
\* address and throw, the others go on to their first collaborator call
EntryPoint ==
    /\ pc = "called"
    /\ pc' = FirstStep(caller, requested)
    /\ awaiting' = IF pc' = "rejected" THEN "none" ELSE pc'
    /\ timerArmed' = TimerFor(pc')
    /\ lastOp' = "called"
    /\ UNCHANGED <<orchFrame, lateCalls, checks, liquidity, riskScore,
                   safetyLevel, enhancedRiskScore, running, stats, isAnalyzing>>

\* the awaited collaborator call returns; clearTimeout(timeout)
CollaboratorReturns ==
    /\ awaiting # "none"
    /\ \E ans \in Answers(pc) :
         CASE pc = "extractMint" ->
                IF ans = "mint" THEN Advance(pc, checks, liquidity)
                ELSE Abandon("noMint")
           [] pc = "liquidity" -> Advance(pc, checks, ans)
           [] OTHER -> Advance(pc, [checks EXCEPT ![pc] = ResultOf(pc, ans)],
                               liquidity)
    /\ lastOp' = "returned"
    /\ UNCHANGED <<orchFrame, lateCalls>>

\* the awaited collaborator call rejects: the catch block of the check, of
\* extractTokenMint or of findLiquidityPools (a failed listing gives no pool)
CollaboratorThrows ==
    /\ awaiting # "none"
    /\ CASE pc = "extractMint" -> Abandon("noMint")
         [] pc = "liquidity" -> Advance(pc, checks, "NO_LIQUIDITY")
         [] OTHER -> Advance(pc, [checks EXCEPT ![pc] = ErrorResult(pc)], liquidity)
    /\ lastOp' = "threw"
    /\ UNCHANGED <<orchFrame, lateCalls>>

\* the setTimeout callback of the check resolves its promise first; the
\* collaborator call stays outstanding
TimerFires ==
    /\ timerArmed # "none"
    /\ timerArmed = pc
    /\ Advance(pc, [checks EXCEPT ![pc] = TimeoutResult(pc)], liquidity)
    /\ lateCalls' = lateCalls \cup {pc}
    /\ lastOp' = "timeout"
    /\ UNCHANGED orchFrame

\* an abandoned collaborator call settles: resolve() on a settled promise and
\* clearTimeout() on a fired timer change nothing
LateSettles ==
    /\ \E c \in lateCalls : lateCalls' = lateCalls \ {c}
    /\ lastOp' = "late"
    /\ UNCHANGED <<orchFrame, pc, awaiting, timerArmed, checks, liquidity,
                   riskScore, safetyLevel, enhancedRiskScore, running, stats,
                   isAnalyzing>>

NextOrch ==
    \/ EntryPoint
    \/ CollaboratorReturns
    \/ CollaboratorThrows
    \/ TimerFires
    \/ LateSettles

SpecOrch == InitOrch /\ [][NextOrch]_vars

NoneCounted(chk) == \A c \in CheckNames : ~Counted(chk[c])

\* C10: the score calculateRiskScore returns is a number in 0..100 for every
\* combination of check entries (absent, failed, timed out, skipped, without
\* a numeric score), and it is the neutral 50, never NaN, when no entry
\* counts.
C10_ScoreInRange ==
    pc = "aggregated" =>
        /\ ~riskScore.isNaN
        /\ riskScore.value \in 0..100
        /\ NoneCounted(riskIn) => riskScore.value = 50

\* an aggregation where every entry present is skipped or has no numeric score
C10_Witness ==
    /\ pc = "aggregated"
    /\ NoneCounted(riskIn)
    /\ \E c \in CheckNames : riskIn[c].skipped
    /\ \E c \in CheckNames : riskIn[c].present /\ ~riskIn[c].hasScore
    /\ riskScore = Num(50)

\* C9: every check the orchestrator runs, and the liquidity analysis, is
\* bounded by its own timeout: whenever the run waits for a collaborator call
\* of one of them, that check's timer is pending, so the wait ends even if
\* the call never returns.
C9_OwnTimeout ==
    awaiting \in CheckNames \cup {"liquidity"} => timerArmed = awaiting

(***************************************************************************)
(* SpecVerdict: the analysis of a token with given facts, as reported by   *)
(* the command line validator and by the comprehensive monitor            *)
(***************************************************************************)
\* analyzeAuthorities: 40 points per authority that is not revoked
analyzeAuthorities(t) ==
    LET issues == (IF t.mintAuthority THEN 1 ELSE 0)
                  + (IF t.freezeAuthority THEN 1 ELSE 0)
    IN  Result(Max(0, 100 - issues * 40), issues)

\* analyzeProgramOwnership for an account that exists
analyzeProgramOwnership(t) ==
    IF t.owner = "standard" THEN Result(100, 0) ELSE Result(20, 1)

\* the ladder with every comparison made inclusive
holderFindingsInclusive(t) ==
    [issues   |-> {r \in {"top1", "top10", "index"} :
                      \/ r = "top1" /\ t.top1 >= 50
                      \/ r = "top10" /\ t.top10 >= 80
                      \/ r = "index" /\ t.hhi >= 2500},
     warnings |-> {r \in {"top1", "top10", "index", "program"} :
                      \/ r = "top1" /\ t.top1 >= 30 /\ t.top1 < 50
                      \/ r = "top10" /\ t.top10 >= 60 /\ t.top10 < 80
                      \/ r = "index" /\ t.hhi >= 1500 /\ t.hhi < 2500
                      \/ r = "program" /\ t.programHolders > 0}]

\* HolderAnalyzer.assessHolderRisks: the rungs that push an issue and the
\* rungs that push a warning; percentages are whole numbers and hhi is the
\* Herfindahl index times 10000
holderFindings(t) ==
    [issues   |-> {r \in {"top1", "top10", "index"} :
                      \/ r = "top1" /\ t.top1 > 50
                      \/ r = "top10" /\ t.top10 > 80
                      \/ r = "index" /\ t.hhi > 2500},
     warnings |-> {r \in {"top1", "top10", "index", "program"} :
                      \/ r = "top1" /\ t.top1 > 30 /\ ~(t.top1 > 50)
                      \/ r = "top10" /\ t.top10 > 60 /\ ~(t.top10 > 80)
                      \/ r = "index" /\ t.hhi > 1500 /\ ~(t.hhi > 2500)
                      \/ r = "program" /\ t.programHolders > 0}]

\* HolderAnalyzer.assessHolderRisks: the score and the two list lengths
assessHolderRisks(t) ==
    LET f == holderFindings(t)
        penalty == (IF "top1" \in f.issues THEN 40 ELSE 0)
                   + (IF "top1" \in f.warnings THEN 20 ELSE 0)
                   + (IF "top10" \in f.issues THEN 30 ELSE 0)
                   + (IF "top10" \in f.warnings THEN 15 ELSE 0)
                   + (IF "index" \in f.issues THEN 25 ELSE 0)
                   + (IF "index" \in f.warnings THEN 15 ELSE 0)
                   + (IF "program" \in f.warnings THEN 10 ELSE 0)
    IN  ResultW(Max(0, 100 - penalty), Cardinality(f.issues),
                Cardinality(f.warnings))

\* const severity = issues.length > 0 ? 'CRITICAL' : warnings.length > 2 ? ...
holderSeverity(result) ==
    IF result.issues > 0 THEN "CRITICAL"
    ELSE IF result.warnings > 2 THEN "HIGH"
    ELSE IF result.warnings > 0 THEN "MEDIUM"
    ELSE "LOW"

\* runHoneypotDetection for a detector answer with this overall probability
honeypotResult(t) ==
    Result(Max(0, 100 - t.overall), IF t.overall > 70 THEN 1 ELSE 0)

\* the sum of f over the set S
RECURSIVE SumOf(_, _)
SumOf(f, S) ==
    IF S = {} THEN 0
    ELSE LET x == CHOOSE y \in S : TRUE IN f[x] + SumOf(f, S \ {x})

\* LiquidityAnalyzer.getSecurityStatus
getSecurityStatus(securedPercentage) ==
    IF securedPercentage >= 95 THEN "EXCELLENT"
    ELSE IF securedPercentage >= 80 THEN "GOOD"
    ELSE IF securedPercentage >= 60 THEN "MODERATE"
    ELSE IF securedPercentage >= 30 THEN "POOR"
    ELSE "DANGEROUS"

\* a pool whose LP mint was read from the account data
lpMintResolved == "resolved"

\* analyzeHolderForPool: lpMint: null
lpMint == "null"

\* LiquidityAnalyzer.analyzePoolSecurity for a pool with this LP mint, when
\* the LP holders show this secured share (-1: the RPC call throws)
analyzePoolSecurity(mint, lpSecured) ==
    IF mint = "null"
    THEN [securityStatus |-> "ESTIMATED", hasSecured |-> TRUE,
          securedPercentage |-> 50]
    ELSE IF lpSecured < 0
    THEN [securityStatus |-> "ERROR", hasSecured |-> FALSE,
          securedPercentage |-> 0]
    ELSE [securityStatus |-> getSecurityStatus(lpSecured), hasSecured |-> TRUE,
          securedPercentage |-> lpSecured]

\* LiquidityAnalyzer.findLiquidityPools + analyzeHolderForPool: one pool per
\* largest holder whose account is owned by a DEX program; a failed or
\* missing account is passed over, a failed listing gives no pool
findLiquidityPools(a) ==
    IF a.listing = "throws" THEN <<>>
    ELSE SelectSeq(a.holders, LAMBDA h : h = "dex")

\* LiquidityAnalyzer.calculateOverallMetrics: the mean of the pools' secured
\* shares, kept as the sum and the number of pools that have one
calculateOverallMetrics(pools) ==
    LET valid == {i \in DOMAIN pools : pools[i].hasSecured}
        total == SumOf([i \in valid |-> pools[i].securedPercentage], valid)
        n     == Cardinality(valid)
    IN  [securedTotal |-> total, validPools |-> n,
         overallStatus |-> getSecurityStatus(IF n > 0 THEN total \div n ELSE 0)]

\* LiquidityAnalyzer.analyzeLiquidity
analyzeLiquidity(a) ==
    LET found == findLiquidityPools(a)
        pools == [i \in DOMAIN found |-> analyzePoolSecurity(lpMint, a.lpSecured)]
        m     == calculateOverallMetrics(pools)
    IN  IF Len(found) = 0
        THEN [pools |-> 0, overallStatus |-> "NO_LIQUIDITY", securedTotal |-> 0,
              validPools |-> 0, poolStatuses |-> {}]
        ELSE [pools |-> Len(found), overallStatus |-> m.overallStatus,
              securedTotal |-> m.securedTotal, validPools |-> m.validPools,
              poolStatuses |-> {pools[i].securityStatus : i \in DOMAIN pools}]

\* analyzeLiquidity: overallStatus for a token with t.pools DEX-owned holders
liquidityStatus(t) ==
    analyzeLiquidity([listing |-> "ok", holders |-> [i \in 1..t.pools |-> "dex"],
                      lpSecured |-> t.secured]).overallStatus

\* the checks map analyzeToken builds for the token when no call fails
checksOf(c, t) ==
    ChecksMap(Result(100, 0), analyzeAuthorities(t), analyzeProgramOwnership(t),
              Result(100, 0), assessHolderRisks(t), honeypotResult(t),
              IF OptionsOf(c).includeMarketData THEN Result(100, 0) ELSE Absent)

\* analysis.enhancedRiskScore || analysis.riskScore
Displayed(enhanced, score) ==
    IF enhanced.isNaN \/ enhanced.value = 0 THEN score ELSE enhanced

\* the band label the caller prints for the token
verdictOf(c, t) ==
    LET score == calculateRiskScore(checksOf(c, t))
    IN  IF c = "enhancedValidator"
        THEN getSafetyLevelEnhanced(
                 Displayed(calculateEnhancedRisk(score, liquidityStatus(t)), score))
        ELSE getFinalRecommendation(score)

Tokens ==
    {t \in [mintAuthority : BOOLEAN, freezeAuthority : BOOLEAN,
            owner : {"standard", "nonStandard"}, top1 : {5, 40, 70},
            top10 : {15, 65, 95}, hhi : {100, 2000, 5000},
            programHolders : {0, 1},
            secured : {10, 45, 90, 100}, pools : {0, 1},
            overall : {0, 50, 100}] :
        /\ t.top1 <= t.top10
        /\ t.top1 * t.top1 <= t.hhi
        /\ t.hhi <= t.top10 * t.top10
        /\ t.pools = 0 => t.secured = 10}

InitVerdict ==
    /\ MonitorIdle
    /\ caller = "none"
    /\ pc = "idle"
    /\ options = OptionsOf("none")
    /\ checks = NoChecks
    /\ timerArmed = "none"
    /\ awaiting = "none"
    /\ lateCalls = {}
    /\ riskScore = NotComputed
    /\ liquidity = "none"
    /\ safetyLevel = "none"
    /\ enhancedRiskScore = NotComputed
    /\ verdict = "none"
    /\ answers = NoAnswers
    /\ detection = NoDetection
    /\ limiter = NoLimiter
    /\ conn = NoConn
    /\ requested = NoRequest
    /\ util = NoUtil
    /\ riskIn = NoChecks
    /\ token \in Tokens

\* EnhancedSolanaTokenValidator.analyzeToken and printEnhancedResults
ValidatorReport ==
    /\ pc = "idle"
    /\ caller' = "enhancedValidator"
    /\ options' = OptionsOf(caller')
    /\ checks' = checksOf(caller', token)
    /\ riskScore' = calculateRiskScore(checks')
    /\ safetyLevel' = getSafetyLevel(riskScore')
    /\ liquidity' = liquidityStatus(token)
    /\ enhancedRiskScore' = calculateEnhancedRisk(riskScore', liquidity')
    /\ verdict' = getSafetyLevelEnhanced(Displayed(enhancedRiskScore', riskScore'))
    /\ pc' = "reported"
    /\ UNCHANGED <<monVars, timerArmed, awaiting, lateCalls, token, riskIn,
                   hpVars, limiter, conn, requested, util>>

\* ComprehensivePumpMonitor.runFullAnalysis and displayFullResults
MonitorReport ==
    /\ pc = "idle"
    /\ caller' = "runFullAnalysis"
    /\ options' = OptionsOf(caller')
    /\ checks' = checksOf(caller', token)
    /\ riskScore' = calculateRiskScore(checks')
    /\ safetyLevel' = getSafetyLevel(riskScore')
    /\ liquidity' = liquidityStatus(token)
    /\ verdict' = getFinalRecommendation(riskScore')
    /\ pc' = "reported"
    /\ UNCHANGED <<monVars, timerArmed, awaiting, lateCalls, token, riskIn,
                   enhancedRiskScore, hpVars, limiter, conn,
                   requested, util>>

NextVerdict ==
    \/ ValidatorReport
    \/ MonitorReport

SpecVerdict == InitVerdict /\ [][NextVerdict]_vars

(***************************************************************************)
(* SpecHoneypot: HoneypotDetector.detectHoneypot for given collaborator    *)
(* answers, and the honeypot check TokenAnalyzer makes of it               *)
(***************************************************************************)
rateLimitIsMethod == TRUE

\* whether this.rateLimit of JupiterService can be called: the constructor
\* assigns this.rateLimit = 1100, which hides the method rateLimit()
rateLimitIsCallable == FALSE

\* testConnectivity: await this.rateLimit() is inside its try block
testConnectivity(a) == IF rateLimitIsCallable THEN a.reachable ELSE FALSE

\* getSwapQuote: "quote", "empty" (no outAmount / no data), or "throws"
getSwapQuote(a, side) == IF rateLimitIsCallable THEN a[side] ELSE "throws"

SimulationFailed ==
    [canBuy |-> FALSE, canSell |-> FALSE, probability |-> 30,
     indicators |-> {"SIMULATION_FAILED"}]

\* JupiterService.simulateSwap
simulateSwap(a) ==
    LET buyQuote == getSwapQuote(a, "buy")
    IN  IF buyQuote = "throws" THEN SimulationFailed
        ELSE IF buyQuote = "empty"
        THEN [canBuy |-> FALSE, canSell |-> FALSE, probability |-> 0,
              indicators |-> {"NO_BUY_ROUTE"}]
        ELSE LET sellQuote == getSwapQuote(a, "sell")
             IN  IF sellQuote = "throws" THEN SimulationFailed
                 ELSE IF sellQuote = "empty"
                 THEN [canBuy |-> TRUE, canSell |-> FALSE, probability |-> 95,
                       indicators |-> {"CANNOT_SELL"}]
                 ELSE [canBuy |-> TRUE, canSell |-> TRUE,
                       probability |-> (IF a.buyImpactHigh THEN 20 ELSE 0)
                                       + (IF a.sellImpactHigh THEN 30 ELSE 0)
                                       + (IF a.singleRoute THEN 10 ELSE 0),
                       indicators |->
                           (IF a.buyImpactHigh THEN {"HIGH_BUY_IMPACT"} ELSE {})
                           \cup (IF a.sellImpactHigh THEN {"HIGH_SELL_IMPACT"} ELSE {})
                           \cup (IF a.singleRoute THEN {"LIMITED_ROUTES"} ELSE {})]

\* HoneypotDetector.runTradingSimulation
runTradingSimulation(a) ==
    IF ~testConnectivity(a)
    THEN [simulation |-> "SKIPPED", riskScore |-> 20, issues |-> {},
          canBuy |-> FALSE, canSell |-> FALSE]
    ELSE LET result == simulateSwap(a)
             own    == (IF ~result.canBuy THEN 80 ELSE 0)
                       + (IF ~result.canSell THEN 90 ELSE 0)
         IN  [simulation |-> "COMPLETED",
              riskScore |-> Max(own, result.probability),
              issues |-> (IF ~result.canBuy THEN {"CANNOT_BUY_TOKEN"} ELSE {})
                         \cup (IF ~result.canSell THEN {"CANNOT_SELL_TOKEN"} ELSE {})
                         \cup result.indicators,
              canBuy |-> result.canBuy, canSell |-> result.canSell]

\* HoneypotDetector.analyzeAuthorities
authorityAnalysis(a) ==
    IF a.mint = "throws"
    THEN [riskScore |-> 30, issues |-> {"AUTHORITY_ANALYSIS_FAILED"}]
    ELSE [riskScore |-> (IF a.mintAuthority THEN 40 ELSE 0)
                        + (IF a.freezeAuthority THEN 50 ELSE 0),
          issues |-> (IF a.mintAuthority THEN {"MINT_AUTHORITY_ACTIVE"} ELSE {})
                     \cup (IF a.freezeAuthority THEN {"FREEZE_AUTHORITY_ACTIVE"} ELSE {})]

\* HoneypotDetector.analyzeProgram
programAnalysis(a) ==
    CASE a.account = "throws"   -> [riskScore |-> 40, issues |-> {"PROGRAM_ANALYSIS_FAILED"}]
      [] a.account = "notFound" -> [riskScore |-> 90, issues |-> {"ACCOUNT_NOT_FOUND"}]
      [] a.account = "standard" -> [riskScore |-> 0, issues |-> {}]
      [] OTHER                  -> [riskScore |-> 60, issues |-> {"NON_STANDARD_PROGRAM"}]

\* HoneypotDetector.analyzeSupplyMetrics
supplyAnalysis(a) ==
    IF a.supply = "throws" \/ a.mint = "throws"
    THEN [riskScore |-> 30, issues |-> {"SUPPLY_ANALYSIS_FAILED"}]
    ELSE [riskScore |-> (CASE a.supply = "zero" -> 80
                           [] a.supply = "huge" -> 15
                           [] OTHER             -> 0)
                        + (IF a.unusualDecimals THEN 10 ELSE 0),
          issues |-> (CASE a.supply = "zero" -> {"ZERO_SUPPLY"}
                        [] a.supply = "huge" -> {"EXTREMELY_HIGH_SUPPLY"}
                        [] OTHER             -> {})
                     \cup (IF a.unusualDecimals THEN {"UNUSUAL_DECIMALS"} ELSE {})]

\* analysis.tests after the four sub-tests
testsOf(a) ==
    [authorityAnalysis |-> authorityAnalysis(a),
     programAnalysis   |-> programAnalysis(a),
     supplyAnalysis    |-> supplyAnalysis(a),
     tradingSimulation |-> runTradingSimulation(a)]

\* the weights of calculateHoneypotProbability, in hundredths
hpWeights ==
    [authorityAnalysis |-> 30, programAnalysis |-> 20, supplyAnalysis |-> 15,
     tradingSimulation |-> 35]

\* HoneypotDetector.calculateHoneypotProbability: overall and confidence (in
\* hundredths); every sub-test carries a numeric riskScore
calculateHoneypotProbability(tests) ==
    LET names       == DOMAIN tests
        hpTotalRisk == SumOf([n \in names |-> tests[n].riskScore * hpWeights[n]], names)
        hpTotalWeight == SumOf([n \in names |-> hpWeights[n]], names)
        overall     == IF hpTotalWeight > 0
                       THEN RoundDiv(hpTotalRisk, hpTotalWeight).value ELSE 30
    IN  [overall |-> Max(0, Min(100, overall)),
         confidence |-> Min(90, hpTotalWeight)]

\* HoneypotDetector.generateVerdict
generateVerdict(probability) ==
    IF probability.overall >= 80 THEN "CONFIRMED_HONEYPOT"
    ELSE IF probability.overall >= 60 THEN "LIKELY_HONEYPOT"
    ELSE IF probability.overall >= 40 THEN "SUSPICIOUS"
    ELSE IF probability.overall >= 20 THEN "CAUTION_ADVISED"
    ELSE "LOW_RISK"

\* TokenAnalyzer.runHoneypotDetection on the detector's answer: the issues it
\* records and the score; it looks for result.tests.swapSimulation
honeypotCheck(tests, probability) ==
    LET high       == probability.overall > 70
        cannotSell == /\ "swapSimulation" \in DOMAIN tests
                      /\ ~tests["swapSimulation"].canSell
    IN  [score |-> Max(0, 100 - probability.overall),
         highRiskIssue |-> high,
         cannotSellIssue |-> cannotSell,
         moderateWarning |-> ~high /\ probability.overall > 40]

\* the collaborator answers of one detection
AnswerSets ==
    {a \in [mint : {"ok", "throws"}, mintAuthority : BOOLEAN,
            freezeAuthority : BOOLEAN,
            account : {"standard", "nonStandard", "notFound", "throws"},
            supply : {"normal", "zero", "huge", "throws"},
            unusualDecimals : BOOLEAN, reachable : BOOLEAN,
            buy : {"quote", "empty", "throws"},
            sell : {"quote", "empty", "throws"},
            buyImpactHigh : BOOLEAN, sellImpactHigh : BOOLEAN,
            singleRoute : BOOLEAN] :
        /\ a.mint = "throws" => (~a.mintAuthority /\ ~a.freezeAuthority
                                 /\ ~a.unusualDecimals)
        /\ a.supply = "throws" => ~a.unusualDecimals
        /\ ~a.reachable => (a.buy = "throws" /\ a.sell = "throws")
        /\ a.buy # "quote" => (a.sell = "throws" /\ ~a.buyImpactHigh /\ ~a.singleRoute)
        /\ a.sell # "quote" => ~a.sellImpactHigh}

\* the entry of the checks map runHoneypotDetection resolves with
honeypotEntry(chk) ==
    ResultW(chk.score,
            (IF chk.highRiskIssue THEN 1 ELSE 0) + (IF chk.cannotSellIssue THEN 1 ELSE 0),
            IF chk.moderateWarning THEN 1 ELSE 0)

\* the facts of a token whose mint account answers as in a
TokensOf(a) ==
    {t \in Tokens : /\ t.mintAuthority = a.mintAuthority
                    /\ t.freezeAuthority = a.freezeAuthority
                    /\ t.owner = "standard"
                    /\ t.pools = 0 /\ t.overall = 0}

InitHoneypot ==
    /\ MonitorIdle
    /\ caller = "none"
    /\ pc = "idle"
    /\ options = OptionsOf("none")
    /\ checks = NoChecks
    /\ timerArmed = "none"
    /\ awaiting = "none"
    /\ lateCalls = {}
    /\ riskScore = NotComputed
    /\ liquidity = "none"
    /\ safetyLevel = "none"
    /\ enhancedRiskScore = NotComputed
    /\ verdict = "none"
    /\ riskIn = NoChecks
    /\ detection = NoDetection
    /\ limiter = NoLimiter
    /\ conn = NoConn
    /\ requested = NoRequest
    /\ util = NoUtil
    /\ answers \in AnswerSets
    /\ token \in TokensOf(answers)

\* the token's authority and holder checks resolve, detectHoneypot returns
\* and runHoneypotDetection resolves with the honeypot check
DetectHoneypot ==
    /\ pc = "idle"
    /\ LET tests       == testsOf(answers)
           probability == calculateHoneypotProbability(tests)
       IN  detection' = [tests |-> tests,
                         overall |-> probability.overall,
                         confidence |-> probability.confidence,
                         verdict |-> generateVerdict(probability),
                         check |-> honeypotCheck(tests, probability)]
    /\ checks' = [NoChecks EXCEPT
                      !["authorities"] = IF answers.mint = "throws"
                                         THEN ErrorResult("authorities")
                                         ELSE analyzeAuthorities(token),
                      !["holders"] = assessHolderRisks(token),
                      !["honeypot"] = honeypotEntry(detection'.check)]
    /\ pc' = "detected"
    /\ UNCHANGED <<monVars, caller, options, timerArmed, awaiting,
                   lateCalls, riskScore, liquidity, safetyLevel,
                   enhancedRiskScore, token, verdict, answers, limiter, conn,
                   requested, util, riskIn>>

NextHoneypot == DetectHoneypot

SpecHoneypot == InitHoneypot /\ [][NextHoneypot]_vars

(***************************************************************************)
(* SpecRate: RateLimitManager, its callers and the requests in flight      *)
(***************************************************************************)
\* this.maxCredits = RATE_LIMITS.MAX_TOTAL_CREDITS
maxCredits == MaxCredits

\* the credits arguments of the requests of one batch
Batches == UNION {[1..n -> 1..MaxCost] : n \in 1..BatchSize}

\* the credit check of executeRequest
PassesCheck(credits) == limiter.creditsUsed + credits <= maxCredits

Scheduled(reqs) == SelectSeq(reqs, PassesCheck)

\* the entries of mainLimiter for the requests reqs of a batch or of a caller
Jobs(reqs, ofBatch) ==
    [i \in 1..Len(reqs) |-> [credits |-> reqs[i], batch |-> ofBatch]]

\* executeRequest(requestFunc, credits) up to its await, for each request of
\* reqs in turn: the ones that pass the credit check are handed to
\* mainLimiter.schedule, the others throw. creditsUsed is not written before
\* the await, so every request is checked against the same value.
Issue(reqs, ofBatch) ==
    [limiter EXCEPT !.pending = @ \o Jobs(Scheduled(reqs), ofBatch),
                    !.rejected = @ + (Len(reqs) - Len(Scheduled(reqs))),
                    !.calls = @ + Len(reqs)]

\* some request of the running batch has not settled
BatchPending == \E i \in 1..Len(limiter.pending) : limiter.pending[i].batch

RemoveAt(q, i) == SubSeq(q, 1, i - 1) \o SubSeq(q, i + 1, Len(q))

\* constructor: creditsUsed = 0; no request in flight, no batch running
InitRate ==
    /\ MonitorIdle
    /\ caller = "none"
    /\ pc = "idle"
    /\ options = OptionsOf("none")
    /\ checks = NoChecks
    /\ timerArmed = "none"
    /\ awaiting = "none"
    /\ lateCalls = {}
    /\ riskScore = NotComputed
    /\ liquidity = "none"
    /\ safetyLevel = "none"
    /\ enhancedRiskScore = NotComputed
    /\ token = NoToken
    /\ verdict = "none"
    /\ riskIn = NoChecks
    /\ answers = NoAnswers
    /\ detection = NoDetection
    /\ conn = NoConn
    /\ requested = NoRequest
    /\ util = NoUtil
    /\ limiter = [creditsUsed |-> 0, pending |-> <<>>, rejected |-> 0,
                  calls |-> 0, batchRunning |-> FALSE, batchesLeft |-> 0]

rateFrame == <<monVars, caller, pc, options, checks, timerArmed, awaiting,
               lateCalls, riskScore, liquidity, safetyLevel, enhancedRiskScore,
               token, verdict, answers, detection, conn, requested, util, riskIn>>

\* a caller awaits executeRequest(requestFunc, credits)
ExecuteRequest ==
    /\ limiter.calls < MaxCalls
    /\ \E credits \in 1..MaxCost : limiter' = Issue(<<credits>>, FALSE)
    /\ UNCHANGED rateFrame

\* executeBatch up to its first await: the first batch is mapped to
\* executeRequest calls, then Promise.all is awaited
ExecuteBatch ==
    /\ ~limiter.batchRunning
    /\ \E nBatches \in 1..2, batch \in Batches :
         /\ limiter.calls + Len(batch) <= MaxCalls
         /\ limiter' = [Issue(batch, TRUE) EXCEPT
                            !.batchRunning = TRUE,
                            !.batchesLeft = nBatches - 1]
    /\ UNCHANGED rateFrame

\* Promise.all of the batch resolved and delay(200) elapsed: the next batch
\* is issued, or executeBatch returns
BatchContinues ==
    /\ limiter.batchRunning
    /\ ~BatchPending
    /\ IF limiter.batchesLeft = 0
       THEN limiter' = [limiter EXCEPT !.batchRunning = FALSE]
       ELSE \E batch \in Batches :
              /\ limiter.calls + Len(batch) <= MaxCalls
              /\ limiter' = [Issue(batch, TRUE) EXCEPT !.batchesLeft = @ - 1]
    /\ UNCHANGED rateFrame

\* mainLimiter ran requestFunc and it resolved: this.creditsUsed += credits
RequestCompletes ==
    /\ \E i \in 1..Len(limiter.pending) :
         limiter' = [limiter EXCEPT
                         !.creditsUsed = @ + limiter.pending[i].credits,
                         !.pending = RemoveAt(@, i)]
    /\ UNCHANGED rateFrame

\* requestFunc rejected for the last time: the catch logs and rethrows
RequestFails ==
    /\ \E i \in 1..Len(limiter.pending) :
         limiter' = [limiter EXCEPT !.pending = RemoveAt(@, i)]
    /\ UNCHANGED rateFrame

\* resetCredits()
ResetCredits ==
    /\ limiter' = [limiter EXCEPT !.creditsUsed = 0]
    /\ UNCHANGED rateFrame

NextRate ==
    \/ ExecuteRequest
    \/ ExecuteBatch
    \/ BatchContinues
    \/ RequestCompletes
    \/ RequestFails
    \/ ResetCredits

SpecRate == InitRate /\ [][NextRate]_vars

(***************************************************************************)
(* SpecConn: the stream connection of a monitor, from startMonitoring on   *)
(***************************************************************************)
\* what the runtime does with a rejected promise that has no handler
\* (node --unhandled-rejections): end the process, or only warn
RejectionModes == {"throw", "warn"}

\* what the caller of startMonitoring does when it rejects: main of index.js,
\* which starts the comprehensive monitor, calls process.exit(1); the other
\* monitors are exported to callers that may catch the error and go on
OnStartFailure(v) ==
    IF v = "comprehensive" THEN {"exit"} ELSE {"exit", "continue"}

\* constructor: this.wsConnection = null; the transport is up or down
InitConn ==
    /\ variant \in {v \in Variants : HasSocket(v)}
    /\ tokenQueue = <<>>
    /\ isAnalyzing = FALSE
    /\ isStreaming = TRUE
    /\ processedSignatures = {}
    /\ stats = ZeroStats
    /\ wsOpen = FALSE
    /\ reconnectAt = 0
    /\ now = 0
    /\ running = {}
    /\ processedCount = 0
    /\ enqueuedLog = <<>>
    /\ startedLog = <<>>
    /\ lastOp = "init"
    /\ lastSignature = 0
    /\ caller = "none"
    /\ pc = "idle"
    /\ options = OptionsOf("none")
    /\ checks = NoChecks
    /\ timerArmed = "none"
    /\ awaiting = "none"
    /\ lateCalls = {}
    /\ riskScore = NotComputed
    /\ liquidity = "none"
    /\ safetyLevel = "none"
    /\ enhancedRiskScore = NotComputed
    /\ token = NoToken
    /\ verdict = "none"
    /\ riskIn = NoChecks
    /\ answers = NoAnswers
    /\ detection = NoDetection
    /\ limiter = NoLimiter
    /\ requested = NoRequest
    /\ util = NoUtil
    /\ \E up \in BOOLEAN, mode \in RejectionModes,
          reaction \in OnStartFailure(variant) :
         conn = [socket |-> "none", promise |-> "none", transportUp |-> up,
                 mode |-> mode, exited |-> FALSE, failed |-> 0,
                 onStartFailure |-> reaction, worker |-> FALSE]

connFrame == <<tokenQueue, isAnalyzing, isStreaming, processedSignatures, stats,
               now, running, processedCount, enqueuedLog, startedLog, variant,
               caller, pc, options, checks, timerArmed, awaiting, lateCalls,
               riskScore, liquidity, safetyLevel, enhancedRiskScore, token,
               verdict, answers, detection, limiter, requested, util, riskIn,
               lastSignature>>

\* startMonitoring: await this.connectWebSocket() inside its try block
StartMonitoring ==
    /\ conn.promise = "none"
    /\ ~conn.exited
    /\ conn' = [conn EXCEPT !.socket = "connecting", !.promise = "awaited"]
    /\ lastOp' = "start"
    /\ UNCHANGED <<connFrame, wsOpen, reconnectAt>>

\* the worker is started by whichever connection opens first
WorkerStartsAfterAnyOpen(promise) == TRUE

\* await this.connectWebSocket(); this.startComprehensiveWorker(): only the
\* continuation of startMonitoring's await starts the worker
WorkerStartsAfter(promise) == promise = "awaited"

\* the 'open' handler: send the logsSubscribe request, resolve()
SocketOpens ==
    /\ conn.socket = "connecting"
    /\ conn.transportUp
    /\ ~conn.exited
    /\ conn' = [conn EXCEPT !.socket = "open", !.promise = "settled",
                            !.worker = @ \/ WorkerStartsAfter(conn.promise)]
    /\ wsOpen' = TRUE
    /\ lastOp' = "open"
    /\ UNCHANGED <<connFrame, reconnectAt>>

\* the connection attempt fails: 'error' (reject) and then 'close'
\* (setTimeout). The promise of startMonitoring's await is handled: the
\* error is rethrown to the caller, and the entry point calls
\* process.exit(1). The promise of a connectWebSocket() called from the timer
\* has no handler.
AttemptFails ==
    /\ conn.socket = "connecting"
    /\ ~conn.transportUp
    /\ ~conn.exited
    /\ LET ends == IF conn.promise = "awaited"
                   THEN conn.onStartFailure = "exit"
                   ELSE conn.mode = "throw"
       IN  /\ conn' = [conn EXCEPT !.socket = "none", !.promise = "settled",
                                   !.exited = ends,
                                   !.failed = Min(@ + 1, MaxFailed)]
           /\ reconnectAt' = IF ends THEN 0 ELSE now + ReconnectDelay(variant)
    /\ lastOp' = "failed"
    /\ UNCHANGED <<connFrame, wsOpen>>

\* the open connection is lost: the 'close' handler arms the reconnect
\* timer; an 'error' before it rejects a settled promise, which does nothing
ConnectionLost ==
    /\ conn.socket = "open"
    /\ ~conn.exited
    /\ \E up \in BOOLEAN :
         conn' = [conn EXCEPT !.socket = "none", !.transportUp = up]
    /\ wsOpen' = FALSE
    /\ reconnectAt' = now + ReconnectDelay(variant)
    /\ lastOp' = "close"
    /\ UNCHANGED connFrame

\* the reconnect timer fires: () => this.connectWebSocket()
ReconnectTimerFires ==
    /\ reconnectAt # 0
    /\ ~conn.exited
    /\ conn' = [conn EXCEPT !.socket = "connecting", !.promise = "floating"]
    /\ reconnectAt' = 0
    /\ lastOp' = "timer"
    /\ UNCHANGED <<connFrame, wsOpen>>

\* the transport accepts connections again
TransportRecovers ==
    /\ ~conn.transportUp
    /\ conn' = [conn EXCEPT !.transportUp = TRUE]
    /\ UNCHANGED <<connFrame, wsOpen, reconnectAt, lastOp>>

NextConn ==
    \/ StartMonitoring
    \/ SocketOpens
    \/ AttemptFails
    \/ ConnectionLost
    \/ ReconnectTimerFires
    \/ TransportRecovers
    \/ (~conn.exited /\ Notification)

\* timers fire, connection attempts settle and the transport recovers
SpecConn ==
    /\ InitConn
    /\ [][NextConn]_vars
    /\ WF_vars(StartMonitoring)
    /\ WF_vars(SocketOpens)
    /\ WF_vars(AttemptFails)
    /\ WF_vars(ReconnectTimerFires)
    /\ WF_vars(TransportRecovers)

(***************************************************************************)
(* Properties of the aggregation                                           *)
(***************************************************************************)
\* the weights the aggregation is documented to use
ClaimedWeights ==
    [basicInfo |-> 10, authorities |-> 40, programOwnership |-> 20,
     metadata |-> 5, holders |-> 15, honeypot |-> 30, marketData |-> 5]

\* the checks of a map that are present with a numeric score and not skipped
Live(chk) ==
    {c \in CheckNames : chk[c].present /\ chk[c].hasScore /\ ~chk[c].skipped}

MeanNumerator(chk) ==
    SumOf([c \in CheckNames |-> chk[c].score * ClaimedWeights[c]], Live(chk))

MeanDenominator(chk) ==
    SumOf([c \in CheckNames |-> ClaimedWeights[c]], Live(chk))

Abs(x) == IF x < 0 THEN -x ELSE x

\* C11: riskScore is the weighted mean, rounded to the nearest integer, of
\* the scores of the non-skipped checks under the weights 10/40/20/5/15/30/5;
\* a skipped check adds to neither the numerator nor the denominator.
C11_WeightedMean ==
    pc = "aggregated" =>
        LET S == MeanNumerator(riskIn)
            W == MeanDenominator(riskIn)
            v == riskScore.value
        IN  W > 0 => /\ ~riskScore.isNaN
                     /\ 2 * v * W <= 2 * S + W
                     /\ 2 * S + W < 2 * v * W + 2 * W

\* an aggregation over several counted checks of different scores, next to a
\* skipped one, whose mean is not an integer
C11_Witness ==
    /\ pc = "aggregated"
    /\ riskIn["holders"].skipped
    /\ riskIn["authorities"] = Result(60, 0)
    /\ riskIn["honeypot"] = Result(30, 0)
    /\ riskIn["basicInfo"] = Result(100, 0)
    /\ riskScore.value * MeanDenominator(riskIn) # MeanNumerator(riskIn)

\* the score the same map yields when check c is present, not skipped, and
\* scores exactly its neutral default
WithDefaultPresent(c) ==
    calculateRiskScore([riskIn EXCEPT ![c] = Result(TimeoutScore(c), 0)])

\* C12: a skipped check is distinguishable from the same check scoring its
\* neutral default: whenever the weighted mean of the other checks is far
\* enough from the default that counting the check moves the mean by one
\* point or more, the riskScore with the check skipped differs from the
\* riskScore with the check present at the default.
C12_SkipDistinguishable ==
    pc = "aggregated" =>
        \A c \in TimedSteps :
            LET S == MeanNumerator(riskIn)
                W == MeanDenominator(riskIn)
                w == ClaimedWeights[c]
                d == TimeoutScore(c)
            IN  (/\ riskIn[c] = Skipped(d)
                 /\ W > 0
                 /\ w * Abs(d * W - S) >= W * (W + w))
                    => WithDefaultPresent(c) # riskScore

\* holders timed out (70, skipped) and the score differs from the score with
\* holders present at 70
C12_Witness ==
    /\ pc = "aggregated"
    /\ riskIn["holders"] = Skipped(70)
    /\ MeanDenominator(riskIn) > 0
    /\ WithDefaultPresent("holders") # riskScore

(***************************************************************************)
(* Properties of the verdicts                                              *)
(***************************************************************************)
\* how dangerous a band label reads, 0 the safest
BandRank(label) ==
    CASE label \in {"APPEARS SAFE", "APPEARS SECURE"}                    -> 0
      [] label \in {"LOW RISK", "RELATIVELY SAFE"}                       -> 1
      [] label \in {"MODERATE RISK", "PROCEED WITH EXTREME CAUTION"}     -> 2
      [] label \in {"HIGH RISK", "AVOID"}                                -> 3
      [] label \in {"EXTREMELY DANGEROUS", "DO NOT TRADE"}               -> 4

Scenario1(t) ==
    /\ ~t.mintAuthority /\ ~t.freezeAuthority
    /\ t.owner = "standard"
    /\ t.top1 = 5
    /\ t.pools > 0 /\ t.secured = 90

Scenario2(t) ==
    /\ t.freezeAuthority
    /\ t.owner = "nonStandard"
    /\ t.top1 = 70

\* C13: for a token with no mint and no freeze authority, a standard program
\* owner, a top-1 holder of 5% and liquidity secured at 90%, the reported
\* riskScore is below 20 and the verdict is the safest band.
C13_Scenario1 ==
    (pc = "reported" /\ Scenario1(token)) =>
        /\ riskScore.value < 20
        /\ BandRank(verdict) = 0

\* C14: for a token with an active freeze authority, a non-standard program
\* owner and a top-1 holder of 70%, the reported riskScore is at least 80 and
\* the verdict is the most dangerous band.
C14_Scenario2 ==
    (pc = "reported" /\ Scenario2(token)) =>
        /\ riskScore.value >= 80
        /\ BandRank(verdict) = 4

\* the tokens that differ from t in one outcome being worse
Worsened(t) ==
    {[t EXCEPT !.mintAuthority = TRUE], [t EXCEPT !.freezeAuthority = TRUE],
     [t EXCEPT !.owner = "nonStandard"], [t EXCEPT !.overall = 100],
     IF t.pools > 0 THEN [t EXCEPT !.secured = 10] ELSE t} \ {t}

\* C15: all scores read 'higher' the same way: making one outcome of the
\* token worse with all others fixed never moves the reported verdict to a
\* safer band.
C15_OnePolarity ==
    pc = "reported" =>
        \A t2 \in Worsened(token) :
            BandRank(verdictOf(caller, t2)) >= BandRank(verdict)

(***************************************************************************)
(* Properties of the honeypot detection                                    *)
(***************************************************************************)
\* the quote service answers the buy request with a quote and fails the
\* sell request
BuyOkSellFails(a) ==
    /\ a.reachable
    /\ a.buy = "quote"
    /\ a.sell \in {"empty", "throws"}

\* C16: whenever the buy quote is obtained and the sell quote fails, the
\* detection reports the top band (CONFIRMED_HONEYPOT, overall >= 80) and the
\* honeypot check records the cannot-sell issue, whatever the other
\* sub-tests found.
C16_SellFailureForcesTop ==
    (pc = "detected" /\ BuyOkSellFails(answers)) =>
        /\ detection.verdict = "CONFIRMED_HONEYPOT"
        /\ detection.overall >= 80
        /\ detection.check.cannotSellIssue

\* C17: when the buy succeeds and the sell fails, honeypotProbability.overall
\* is at least 90 even with both authorities revoked, a standard program
\* owner and an unremarkable supply.
C17_Scenario3 ==
    (/\ pc = "detected"
     /\ BuyOkSellFails(answers)
     /\ answers.mint = "ok" /\ ~answers.mintAuthority /\ ~answers.freezeAuthority
     /\ answers.account = "standard"
     /\ answers.supply = "normal" /\ ~answers.unusualDecimals)
        => detection.overall >= 90

(***************************************************************************)
(* Properties of the checks of a run                                       *)
(***************************************************************************)
\* C18: when a check's timer fires before its collaborator answers, the run
\* goes on to its next step with a skipped result for the check (skipped,
\* one warning, no issue, score 70, or 50 for honeypot) and the abandoned
\* call stays outstanding; when that call settles later, the checks and the
\* scores computed from them do not change.
C18_TimeoutSkipped ==
    [][/\ lastOp' = "timeout" =>
            /\ pc \in TimedSteps
            /\ checks'[pc].present /\ checks'[pc].skipped
            /\ checks'[pc].issues = 0 /\ checks'[pc].warnings = 1
            /\ checks'[pc].hasScore
            /\ checks'[pc].score = (IF pc = "honeypot" THEN 50 ELSE 70)
            /\ \A c \in CheckNames \ {pc} : checks'[c] = checks[c]
            /\ pc' = StepAfter(caller, options, StepIndex(pc))
            /\ pc' \notin CheckNames => riskScore' = calculateRiskScore(checks')
            /\ pc \in lateCalls'
       /\ lastOp' = "late" =>
            /\ checks' = checks
            /\ riskScore' = riskScore
            /\ safetyLevel' = safetyLevel
            /\ enhancedRiskScore' = enhancedRiskScore
            /\ pc' = pc]_vars

\* the abandoned honeypot call settled after the run had finished with the
\* honeypot check skipped
C18_Witness ==
    /\ lastOp = "late"
    /\ pc = "finished"
    /\ checks["honeypot"] = Skipped(50)
    /\ lateCalls = {}
    /\ ~riskScore.isNaN /\ riskScore.value \in 0..100

\* C19: a check whose collaborator call throws yields a result that carries
\* the failure as an issue, with a score below the full 100, and the run goes
\* on to its next step.
C19_FailureIsIssue ==
    [][(lastOp' = "threw" /\ pc \in CheckNames) =>
            /\ checks'[pc].present
            /\ checks'[pc].score < 100
            /\ pc' = StepAfter(caller, options, StepIndex(pc))
            /\ checks'[pc].issues >= 1]_vars

(***************************************************************************)
(* Properties of the rate limit manager                                    *)
(***************************************************************************)
\* C20: the credits charged never exceed the ceiling, whatever the
\* interleaving of executeRequest calls and of the requests of a batch.
C20_CreditCeiling == limiter.creditsUsed <= maxCredits

(***************************************************************************)
(* Properties of the stream connection                                     *)
(***************************************************************************)
\* C21: after every close of the stream connection the listener is
\* eventually subscribed again, given that connection attempts settle, the
\* reconnect timer fires and the transport eventually accepts connections.
C21_Resubscribes == (lastOp = "close") ~> wsOpen

(***************************************************************************)
(* Properties of the options                                               *)
(***************************************************************************)
\* the include flag of an optional check
FlagOf(step) ==
    CASE step = "metadata"   -> "includeMetadata"
      [] step = "holders"    -> "includeHolderAnalysis"
      [] step = "honeypot"   -> "includeHoneypotDetection"
      [] step = "marketData" -> "includeMarketData"

\* C22: an optional check whose include flag the caller set to false is
\* never run and never has an entry in the checks map, whether the caller
\* calls the orchestrator or a validator's analyzeToken.
C22_DisabledNotRun ==
    \A step \in TimedSteps :
        ~requested.options[FlagOf(step)] => (pc # step /\ ~checks[step].present)

(***************************************************************************)
(* Properties of the token identity                                        *)
(***************************************************************************)
\* C23: a validator's analyzeToken called with a malformed address ends with
\* an error before any check runs or any collaborator is awaited; a monitor
\* run that ends at the mint extraction has run no check; and a run ends
\* without a riskScore only in these two ways.
C23_BadIdentityFailsFast ==
    [][/\ (/\ caller \in {"validator", "enhancedValidator"}
           /\ requested.mintAddress = "malformed") =>
            /\ pc' = "rejected"
            /\ checks' = NoChecks /\ awaiting' = "none" /\ timerArmed' = "none"
            /\ riskScore' = NotComputed
       /\ (pc = "extractMint" /\ pc' = "finished") =>
            /\ checks' = NoChecks /\ awaiting' = "none"
            /\ riskScore' = NotComputed
       /\ (pc' \in {"finished", "rejected"} /\ riskScore' = NotComputed) =>
            pc \in {"called", "extractMint", "finished", "rejected"}]_vars

\* a validator run rejected for its address
C23_Witness ==
    /\ caller = "enhancedValidator"
    /\ lastOp = "called"
    /\ requested.mintAddress = "malformed"
    /\ pc = "rejected"
    /\ checks = NoChecks

NotificationOutcomes == {"ignored", "duplicate", "filtered", "queued", "dropped"}

\* C25: while streaming is paused, a notification leaves the queue, the
\* recorded signatures and the counters unchanged; the worker starts queued
\* events whenever its guard holds, paused or not; and the toggle flips the
\* pause, so that a second toggle resumes detection.
C25_PauseFrame ==
    /\ []((~isStreaming /\ WorkerGuard) => ENABLED WorkerTick)
    /\ [][/\ (~isStreaming /\ lastOp' \in NotificationOutcomes) =>
               /\ lastOp' = "ignored"
               /\ tokenQueue' = tokenQueue
               /\ processedSignatures' = processedSignatures
               /\ stats' = stats
               /\ enqueuedLog' = enqueuedLog
          /\ lastOp' = "toggle" => isStreaming' = ~isStreaming]_vars

\* a notification ignored while paused, with an event still queued
C25_Witness ==
    /\ lastOp = "ignored"
    /\ ~isStreaming
    /\ Len(tokenQueue) > 0
    /\ Len(startedLog) > 0

(***************************************************************************)
(* Properties of the hand-over to the aggregator                           *)
(***************************************************************************)
\* C26: whenever a run has a riskScore or a safetyLevel, no check is awaited
\* any more, the checks map holds an entry for exactly the enabled checks,
\* and the riskScore and safetyLevel are the ones of that map.
C26_CompleteMap ==
    (riskScore # NotComputed \/ safetyLevel # "none") =>
        /\ awaiting \notin CheckNames
        /\ \A c \in CheckNames :
               checks[c].present <=> StepEnabled(caller, options, c)
        /\ riskScore = calculateRiskScore(checks)
        /\ safetyLevel = getSafetyLevel(riskScore)

\* a finished run with the holder check disabled and the metadata check
\* timed out
C26_Witness ==
    /\ pc = "finished"
    /\ ~options.includeHolderAnalysis
    /\ checks["metadata"].skipped
    /\ ~checks["holders"].present
    /\ riskScore # NotComputed
    /\ safetyLevel # "none"

(***************************************************************************)
(* Properties of the authority and holder checks                           *)
(***************************************************************************)
\* the same token with only the mint authority active
OnlyMint(t) == [t EXCEPT !.mintAuthority = TRUE, !.freezeAuthority = FALSE]

\* C27: the Authorities check of a token with only the freeze authority
\* active scores strictly worse than it would with only the mint authority
\* active.
C27_FreezeCostsMore ==
    (/\ pc = "detected"
     /\ answers.mint = "ok"
     /\ token.freezeAuthority /\ ~token.mintAuthority)
        => checks["authorities"].score < analyzeAuthorities(OnlyMint(token)).score

(***************************************************************************)
(* SpecHolders: HolderAnalyzer.analyzeHolderDistribution for a given list  *)
(* of largest accounts                                                     *)
(***************************************************************************)
MaxHolders == 4

\* the shares, in whole percent, a listed account can hold
HolderShares == {5, 10, 20, 30, 31, 50, 51}

\* the sum of the squared shares, in units of 1/10000
SumOfSquares(holders) ==
    SumOf([i \in DOMAIN holders |-> holders[i] * holders[i]], DOMAIN holders)

\* getTokenLargestAccounts lists the accounts largest first and the shares
\* of one supply add up to at most 100; a list whose index is 0.15 in exact
\* arithmetic is left out, because in binary floating point the sum of the
\* squares may land on either side of the literal
HolderLists ==
    UNION {{h \in [1..n -> HolderShares] :
               /\ \A i \in 1..(n - 1) : h[i] >= h[i + 1]
               /\ SumOf(h, 1..n) <= 100
               /\ SumOfSquares(h) # 1500} : n \in 0..MaxHolders}

\* what the two RPC calls and the holder loop give the analysis
HolderAnswers ==
    {a \in [outcome : {"listed", "noData", "zeroSupply", "throws"},
            holders : HolderLists, programHolders : {0, 1}] :
        /\ a.outcome # "listed" => (a.holders = <<>> /\ a.programHolders = 0)
        /\ a.programHolders <= Len(a.holders)}

\* HolderAnalyzer.calculateConcentration
calculateConcentration(holders) ==
    IF Len(holders) = 0
    THEN [top1Percentage |-> 0, top10Percentage |-> 0, herfindahlIndex |-> 0]
    ELSE [top1Percentage |-> holders[1],
          top10Percentage |-> SumOf(holders, {i \in DOMAIN holders : i <= 10}),
          herfindahlIndex |-> SumOfSquares(holders)]

\* the early returns and the catch of analyzeHolderDistribution
holderFailure ==
    [concentration |-> calculateConcentration(<<>>), issues |-> {"failure"},
     warnings |-> {}, score |-> 0, severity |-> "CRITICAL"]

\* HolderAnalyzer.analyzeHolderDistribution
analyzeHolderDistribution(a) ==
    IF a.outcome # "listed" THEN holderFailure
    ELSE LET concentration == calculateConcentration(a.holders)
             t == [NoToken EXCEPT !.top1 = concentration.top1Percentage,
                                  !.top10 = concentration.top10Percentage,
                                  !.hhi = concentration.herfindahlIndex,
                                  !.programHolders = a.programHolders]
             assessment == assessHolderRisks(t)
         IN  [concentration |-> concentration,
              issues |-> holderFindings(t).issues,
              warnings |-> holderFindings(t).warnings,
              score |-> assessment.score,
              severity |-> holderSeverity(assessment)]

InitHolders ==
    /\ MonitorIdle
    /\ caller = "none"
    /\ pc = "idle"
    /\ options = OptionsOf("none")
    /\ checks = NoChecks
    /\ timerArmed = "none"
    /\ awaiting = "none"
    /\ lateCalls = {}
    /\ riskScore = NotComputed
    /\ liquidity = "none"
    /\ safetyLevel = "none"
    /\ enhancedRiskScore = NotComputed
    /\ verdict = "none"
    /\ riskIn = NoChecks
    /\ detection = NoDetection
    /\ limiter = NoLimiter
    /\ conn = NoConn
    /\ requested = NoRequest
    /\ util = NoUtil
    /\ token = NoToken
    /\ answers \in HolderAnswers

\* analyzeHoldersWithTimeout resolves with the analyzer's result
AnalyzeHolders ==
    /\ pc = "idle"
    /\ detection' = analyzeHolderDistribution(answers)
    /\ checks' = [NoChecks EXCEPT
                      !["holders"] = ResultW(detection'.score,
                                             Cardinality(detection'.issues),
                                             Cardinality(detection'.warnings))]
    /\ pc' = "assessed"
    /\ UNCHANGED <<monVars, caller, options, timerArmed, awaiting, lateCalls,
                   riskScore, liquidity, safetyLevel, enhancedRiskScore,
                   token, verdict, answers, limiter, conn, requested, util, riskIn>>

NextHolders == AnalyzeHolders

SpecHolders == InitHolders /\ [][NextHolders]_vars

(***************************************************************************)
(* Properties of the holder ladder                                         *)
(***************************************************************************)
\* C28: once the holder check has run on a list of accounts, an issue is
\* raised for the top-1 share exactly when it exceeds 50 and a warning
\* exactly when it exceeds 30 without exceeding 50; for the top-10 share
\* the rungs are 80 and 60; for the concentration index 0.25 and 0.15; the
\* severity is CRITICAL exactly when an issue was raised, and the score lies
\* in 0..100.
C28_ThresholdLadder ==
    pc = "assessed" =>
        LET holders == answers.holders
            top1    == IF holders = <<>> THEN 0 ELSE holders[1]
            top10   == SumOf(holders, DOMAIN holders)
            index   == SumOfSquares(holders)
        IN  /\ answers.outcome = "listed" =>
                /\ "top1" \in detection.issues <=> top1 > 50
                /\ "top1" \in detection.warnings <=> (top1 > 30 /\ top1 <= 50)
                /\ "top10" \in detection.issues <=> top10 > 80
                /\ "top10" \in detection.warnings <=> (top10 > 60 /\ top10 <= 80)
                /\ "index" \in detection.issues <=> index > 2500
                /\ "index" \in detection.warnings
                       <=> (index > 1500 /\ index <= 2500)
            /\ detection.severity = "CRITICAL" <=> detection.issues # {}
            /\ detection.score \in 0..100
            /\ checks["holders"].score = detection.score

\* a single holder of exactly half the supply: both the top-1 share and the
\* index sit on their upper rung, so only warnings are raised
C28_Witness ==
    /\ pc = "assessed"
    /\ answers.outcome = "listed"
    /\ answers.holders = <<50>>
    /\ detection.issues = {}
    /\ detection.warnings = {"top1", "index"}
    /\ detection.severity = "MEDIUM"
    /\ detection.score = 65

(***************************************************************************)
(* Properties of the trading simulation's outage path                      *)
(***************************************************************************)
\* analysis.tests of the same detection had the trading simulation completed
\* with a clean round trip
CompletedTests(a) ==
    [testsOf(a) EXCEPT !.tradingSimulation =
        [simulation |-> "COMPLETED", riskScore |-> 0, issues |-> {},
         canBuy |-> TRUE, canSell |-> TRUE]]

\* C29: when the swap-quoting service is unreachable the detection still
\* returns, its trading simulation is skipped without an issue, and the
\* confidence it reports is strictly lower than the confidence the same
\* detection reports with a completed trading simulation.
C29_OutageLowersConfidence ==
    (pc = "detected" /\ ~answers.reachable) =>
        /\ detection.tests.tradingSimulation.simulation = "SKIPPED"
        /\ detection.tests.tradingSimulation.issues = {}
        /\ ~detection.check.cannotSellIssue
        /\ detection.confidence
               < calculateHoneypotProbability(CompletedTests(answers)).confidence

(***************************************************************************)
(* Properties of a detection dropped at a full queue                       *)
(***************************************************************************)
\* the signatures recorded without ever having been pushed
DroppedSignatures(recorded, pushed) ==
    {s \in recorded : \A i \in DOMAIN pushed : pushed[i] # s}

\* C30: a detection dropped at a full queue adds its signature to the
\* processed set and counts in stats.detected although nothing is pushed;
\* from then on the signature stays recorded, a notification carrying it
\* again is handled as a duplicate, and it is never pushed, queued or
\* started, whether or not the queue has room.
C30_DroppedNeverAnalysed ==
    [][/\ lastOp' = "dropped" =>
            /\ lastSignature' \notin processedSignatures
            /\ processedSignatures' = processedSignatures \cup {lastSignature'}
            /\ stats'.detected = stats.detected + 1
            /\ tokenQueue' = tokenQueue
            /\ enqueuedLog' = enqueuedLog
       /\ \A s \in DroppedSignatures(processedSignatures, enqueuedLog) :
            /\ s \in DroppedSignatures(processedSignatures', enqueuedLog')
            /\ \A i \in DOMAIN tokenQueue' : tokenQueue'[i].signature # s
            /\ \A i \in DOMAIN startedLog' : startedLog'[i] # s
            /\ (lastSignature' = s /\ isStreaming) =>
                   (lastOp' = "duplicate" /\ UNCHANGED monitorState)]_vars

\* the notification of a dropped detection has arrived again while the
\* queue has room, and it was suppressed
C30_Witness ==
    /\ lastOp = "duplicate"
    /\ lastSignature \in DroppedSignatures(processedSignatures, enqueuedLog)
    /\ QueueHasRoom(tokenQueue, variant)
    /\ stats.detected = Cardinality(processedSignatures)
    /\ \A i \in DOMAIN startedLog : startedLog[i] # lastSignature

(***************************************************************************)
(* Properties of a monitor whose first connection attempt failed           *)
(***************************************************************************)
\* the promise startMonitoring awaited was rejected: no worker was started
StartRejected == ~conn.worker /\ conn.promise \in {"settled", "floating"}

\* C31: once startMonitoring has rejected because the first connection
\* attempt failed, no reconnect is pending or under way, the stream is not
\* open and nothing is in the queue: events are enqueued only while a worker
\* is running.
C31_NoWorkerNoEvents ==
    StartRejected =>
        /\ reconnectAt = 0
        /\ conn.socket = "none"
        /\ ~wsOpen
        /\ tokenQueue = <<>>

(***************************************************************************)
(* Properties of the collaborator calls outstanding during a run           *)
(***************************************************************************)
\* the steps that have a collaborator call outstanding
Outstanding == lateCalls \cup (IF awaiting = "none" THEN {} ELSE {awaiting})

\* C32: all outstanding collaborator calls belong to one step of the run, the
\* one the run is at: no call made for a check that timed out is outstanding
\* once the run has moved on.
C32_CallsOfOneCheck ==
    /\ Cardinality(Outstanding) <= 1
    /\ \A c \in Outstanding : c = pc

(***************************************************************************)
(* Properties of the monitor's counters                                    *)
(***************************************************************************)
\* C33: every detection is accounted for exactly once: the detections
\* counted equal the events queued, plus the analysis in flight, plus the
\* analyses counted, plus the detections dropped at a full queue; hence the
\* analyses counted never exceed the detections.
C33_CountersBalance ==
    /\ stats.detected
         = Len(tokenQueue) + (IF isAnalyzing THEN 1 ELSE 0) + stats.analyzed
           + Cardinality(DroppedSignatures(processedSignatures, enqueuedLog))
    /\ stats.analyzed <= stats.detected

\* C34: in the optimized monitor an analysis that ends without a stored
\* result is counted in stats.failed and not in stats.analyzed, and an
\* analysis that stored a result is counted in stats.analyzed only.
C34_FailuresCounted ==
    [][variant = "optimized" =>
          /\ lastOp' = "settledFailed" =>
                /\ stats'.failed = stats.failed + 1
                /\ stats'.analyzed = stats.analyzed
          /\ lastOp' = "settled" =>
                /\ stats'.failed = stats.failed
                /\ stats'.analyzed = stats.analyzed + 1]_vars

(***************************************************************************)
(* SpecLiquidity: LiquidityAnalyzer.analyzeLiquidity for given answers of  *)
(* the RPC service                                                         *)
(***************************************************************************)
MaxLargest == 3

\* what getTokenLargestAccounts and getAccountInfo answer, and the secured
\* share the LP holders of a pool would show
LiquidityAnswers ==
    {a \in [listing : {"ok", "throws"},
            holders : UNION {[1..n -> {"dex", "other", "missing", "throws"}] :
                                n \in 0..MaxLargest},
            lpSecured : {-1, 10, 45, 90, 100}] :
        a.listing = "throws" => a.holders = <<>>}

InitLiquidity ==
    /\ MonitorIdle
    /\ caller = "none"
    /\ pc = "idle"
    /\ options = OptionsOf("none")
    /\ checks = NoChecks
    /\ timerArmed = "none"
    /\ awaiting = "none"
    /\ lateCalls = {}
    /\ riskScore = NotComputed
    /\ liquidity = "none"
    /\ safetyLevel = "none"
    /\ enhancedRiskScore = NotComputed
    /\ verdict = "none"
    /\ riskIn = NoChecks
    /\ detection = NoDetection
    /\ limiter = NoLimiter
    /\ conn = NoConn
    /\ requested = NoRequest
    /\ util = NoUtil
    /\ token = NoToken
    /\ answers \in LiquidityAnswers

\* liquidityAnalyzer.analyzeLiquidity(mint) returns
AnalyzeLiquidity ==
    /\ pc = "idle"
    /\ detection' = analyzeLiquidity(answers)
    /\ liquidity' = detection'.overallStatus
    /\ pc' = "analysed"
    /\ UNCHANGED <<monVars, caller, options, checks, timerArmed, awaiting,
                   lateCalls, riskScore, safetyLevel, enhancedRiskScore, token,
                   verdict, answers, limiter, conn, requested, util, riskIn>>

NextLiquidity == AnalyzeLiquidity

SpecLiquidity == InitLiquidity /\ [][NextLiquidity]_vars

(***************************************************************************)
(* Properties of the liquidity analysis                                    *)
(***************************************************************************)
\* C35: the liquidity analysis ends in one of two outcomes: NO_LIQUIDITY
\* with a secured share of 0 when no largest holder is owned by a DEX program
\* or the listing fails, and otherwise a secured share of exactly 50 with
\* overall status POOR, every pool being estimated; no other status occurs.
C35_TwoOutcomes ==
    pc = "analysed" =>
        LET dexOwned == {i \in DOMAIN answers.holders : answers.holders[i] = "dex"}
        IN  IF answers.listing = "throws" \/ dexOwned = {}
            THEN /\ liquidity = "NO_LIQUIDITY"
                 /\ detection.securedTotal = 0
                 /\ detection.pools = 0
            ELSE /\ liquidity = "POOR"
                 /\ detection.pools = Cardinality(dexOwned)
                 /\ detection.validPools = detection.pools
                 /\ detection.securedTotal = 50 * detection.validPools
                 /\ detection.poolStatuses = {"ESTIMATED"}

\* two of three largest holders are pools whose LP holders would show a
\* secured share of 100, and the analysis still reports POOR
C35_Witness ==
    /\ pc = "analysed"
    /\ answers.holders = <<"dex", "other", "dex">>
    /\ answers.lpSecured = 100
    /\ liquidity = "POOR"
    /\ detection.securedTotal = 100
    /\ detection.validPools = 2

(***************************************************************************)
(* Properties of the liquidity step of a run                               *)
(***************************************************************************)
\* C36: the step that ends the liquidity analysis leaves the checks, the
\* riskScore and the safetyLevel as they were, whatever the liquidity result;
\* in a finished run that had a liquidity analysis both are the values
\* computed from the checks alone.
C36_LiquidityLeavesScore ==
    /\ [](((pc = "finished" /\ liquidity # "none")
             => /\ riskScore = calculateRiskScore(checks)
                /\ safetyLevel = getSafetyLevel(riskScore)))
    /\ [][(pc = "liquidity" /\ pc' # "liquidity") =>
             /\ checks' = checks
             /\ riskScore' = riskScore
             /\ safetyLevel' = safetyLevel
             /\ liquidity' \in {"POOR", "NO_LIQUIDITY"}]_vars

\* the monitor's run finished with a POOR liquidity result and a riskScore
\* that the liquidity adjustment would have changed
C36_Witness ==
    /\ pc = "finished"
    /\ caller = "runFullAnalysis"
    /\ liquidity = "POOR"
    /\ riskScore = calculateRiskScore(checks)
    /\ calculateEnhancedRisk(riskScore, liquidity) # riskScore

\* the adjustment documented for a liquidity status
LiquidityAdjustment(status) ==
    CASE status = "DANGEROUS" -> 30
      [] status = "POOR"      -> 20
      [] status = "EXCELLENT" -> 0 - 15
      [] OTHER                -> 0

\* C37: in a finished run of the enhanced validator with a riskScore in
\* 0..100, the enhancedRiskScore is the riskScore plus the adjustment of the
\* liquidity status, clamped to 0..100, for riskScore 0 as for any other.
C37_EnhancedIsAdjustedScore ==
    (/\ pc = "finished"
     /\ caller = "enhancedValidator"
     /\ liquidity # "none"
     /\ ~riskScore.isNaN /\ riskScore.value \in 0..100) =>
        /\ ~enhancedRiskScore.isNaN
        /\ enhancedRiskScore.value \in 0..100
        /\ enhancedRiskScore.value
             = Max(0, Min(100, riskScore.value + LiquidityAdjustment(liquidity)))

(***************************************************************************)
(* Properties of the trading simulation with the quote service reachable   *)
(***************************************************************************)
\* C38: when the quote service is reachable and answers the buy and the sell
\* request with a quote, the trading sub-test of the detection ends
\* COMPLETED, with the buy and the sell found possible.
C38_SimulationRuns ==
    (/\ pc = "detected"
     /\ answers.reachable
     /\ answers.buy = "quote" /\ answers.sell = "quote") =>
        /\ detection.tests.tradingSimulation.simulation = "COMPLETED"
        /\ detection.tests.tradingSimulation.canBuy
        /\ detection.tests.tradingSimulation.canSell

(***************************************************************************)
(* SpecBatch: BatchProcessor.processBatch, its batches and its Semaphore   *)
(***************************************************************************)
MaxBatches == 4
MaxConcurrency == 2

BatchIds == 1..MaxBatches

\* onError = 'continue' | 'stop' | 'retry'
OnErrorModes == {"continue", "stop", "retry"}

\* everything but the utility classes
utilFrame == <<monVars, caller, pc, options, checks, timerArmed, awaiting,
               lateCalls, riskScore, liquidity, safetyLevel, enhancedRiskScore,
               token, verdict, answers, detection, limiter, conn, requested,
               riskIn>>

\* no monitor, no run, no detection
UtilIdle ==
    /\ MonitorIdle
    /\ caller = "none"
    /\ pc = "idle"
    /\ options = OptionsOf("none")
    /\ checks = NoChecks
    /\ timerArmed = "none"
    /\ awaiting = "none"
    /\ lateCalls = {}
    /\ riskScore = NotComputed
    /\ liquidity = "none"
    /\ safetyLevel = "none"
    /\ enhancedRiskScore = NotComputed
    /\ verdict = "none"
    /\ riskIn = NoChecks
    /\ detection = NoDetection
    /\ limiter = NoLimiter
    /\ conn = NoConn
    /\ requested = NoRequest
    /\ token = NoToken
    /\ answers = NoAnswers

\* const semaphore = new Semaphore(concurrency), before batches.map
InitBatch ==
    /\ UtilIdle
    /\ \E c \in 1..MaxConcurrency, mode \in OnErrorModes, n \in BatchIds :
         util = [kind |-> "batch", concurrency |-> c, onError |-> mode,
                 permits |-> c, waiting |-> <<>>,
                 status |-> [b \in BatchIds |-> IF b <= n THEN "new" ELSE "none"]]

\* `return this.processSingleBatch(...)` in the catch block is not awaited:
\* the finally block releases the permit while the retried batch runs
ReleasedWhileRetrying(mode) == mode = "retry"

\* batches.map has called acquire() for every batch: the callbacks of the
\* acquired permits run only after the synchronous map
Mapped == \A b \in BatchIds : util.status[b] # "new"

\* the function createReleaseFunction returns: permits++, and the head of
\* the waiting list, if any, takes the permit and starts
Released(u) ==
    IF Len(u.waiting) > 0
    THEN [u EXCEPT !.waiting = Tail(@), !.status[Head(u.waiting)] = "running"]
    ELSE [u EXCEPT !.permits = @ + 1]

\* batches.map: semaphore.acquire() for the next batch, in order
Acquire ==
    /\ \E b \in BatchIds :
         /\ util.status[b] = "new"
         /\ \A a \in BatchIds : a < b => util.status[a] # "new"
         /\ util' = IF util.permits > 0
                    THEN [util EXCEPT !.permits = @ - 1, !.status[b] = "running"]
                    ELSE [util EXCEPT !.waiting = Append(@, b),
                                      !.status[b] = "waiting"]
    /\ UNCHANGED utilFrame

\* processSingleBatch and the callbacks return: finally { release() }
BatchCompletes ==
    /\ Mapped
    /\ \E b \in BatchIds :
         /\ util.status[b] = "running"
         /\ util' = Released([util EXCEPT !.status[b] = "done"])
    /\ UNCHANGED utilFrame

\* onProgress or onBatchComplete throws: the catch block, then the finally
BatchFails ==
    /\ Mapped
    /\ \E b \in BatchIds :
         /\ util.status[b] = "running"
         /\ util' = IF ReleasedWhileRetrying(util.onError)
                    THEN Released([util EXCEPT !.status[b] = "retrying"])
                    ELSE Released([util EXCEPT !.status[b] = "failed"])
    /\ UNCHANGED utilFrame

\* the retried processSingleBatch returns
RetryCompletes ==
    /\ Mapped
    /\ \E b \in BatchIds :
         /\ util.status[b] = "retrying"
         /\ util' = [util EXCEPT !.status[b] = "done"]
    /\ UNCHANGED utilFrame

NextBatch == Acquire \/ BatchCompletes \/ BatchFails \/ RetryCompletes

SpecBatch == InitBatch /\ [][NextBatch]_vars

(***************************************************************************)
(* Properties of the batch processor                                       *)
(***************************************************************************)
\* the batches whose items are being processed
Executing == {b \in BatchIds : util.status[b] \in {"running", "retrying"}}

\* C39: the permit count stays between 0 and the concurrency, the batches
\* holding a permit and the free permits add up to the concurrency, and no
\* more than `concurrency` batches are executing at the same time.
C39_ConcurrencyBound ==
    /\ util.permits \in 0..util.concurrency
    /\ Cardinality({b \in BatchIds : util.status[b] = "running"}) + util.permits
         = util.concurrency
    /\ Cardinality(Executing) <= util.concurrency

(***************************************************************************)
(* SpecRequest: one call of ApiUtils.makeRequest                           *)
(***************************************************************************)
\* this.retryAttempts = 3
retryAttempts == 3

\* the errors axios rejects with: with or without a response, its status,
\* and the error code
AxiosErrors ==
    {e \in [response : BOOLEAN, status : {0, 304, 404, 429, 500, 503},
            code : {"none", "ECONNRESET", "ETIMEDOUT", "ERR_BAD_REQUEST",
                    "ERR_BAD_RESPONSE"}] :
        /\ e.response <=> e.status # 0
        /\ e.code = "ERR_BAD_REQUEST" <=> e.status \in {304, 404, 429}
        /\ e.code = "ERR_BAD_RESPONSE" <=> e.status \in {500, 503}}

NoError == [response |-> FALSE, status |-> 0, code |-> "none"]

\* every failure is retried
shouldRetryAlways(error) == TRUE

\* ApiUtils.shouldRetry
shouldRetry(error) ==
    \/ ~error.response
    \/ error.code = "ECONNRESET"
    \/ error.code = "ETIMEDOUT"
    \/ (error.status >= 500 /\ error.status < 600)
    \/ error.status = 429

\* makeRequest(config) or makeRequest(config, retries) is called: the first
\* axios call is pending
InitRequest ==
    /\ UtilIdle
    /\ \E r \in 0..retryAttempts :
         util = [kind |-> "request", retries |-> r, left |-> r, attempts |-> 1,
                 outcome |-> "pending", delaying |-> FALSE, error |-> NoError]

\* the awaited axios call resolves: return response.data
AxiosResolves ==
    /\ util.outcome = "pending"
    /\ ~util.delaying
    /\ util' = [util EXCEPT !.outcome = "returned"]
    /\ UNCHANGED utilFrame

\* the awaited axios call rejects: the catch block
AxiosRejects ==
    /\ util.outcome = "pending"
    /\ ~util.delaying
    /\ \E e \in AxiosErrors :
         util' = IF util.left > 0 /\ shouldRetry(e)
                 THEN [util EXCEPT !.delaying = TRUE, !.error = e]
                 ELSE [util EXCEPT !.outcome = "raised", !.error = e]
    /\ UNCHANGED utilFrame

\* await this.delay(this.retryDelay) ends: makeRequest(config, retries - 1)
RetryDelayElapsed ==
    /\ util.outcome = "pending"
    /\ util.delaying
    /\ util' = [util EXCEPT !.delaying = FALSE, !.left = @ - 1,
                            !.attempts = @ + 1]
    /\ UNCHANGED utilFrame

NextRequest == AxiosResolves \/ AxiosRejects \/ RetryDelayElapsed

\* every axios call settles (timeout: this.defaultTimeout) and timers fire
SpecRequest ==
    /\ InitRequest
    /\ [][NextRequest]_vars
    /\ WF_vars(AxiosResolves \/ AxiosRejects)
    /\ WF_vars(RetryDelayElapsed)

(***************************************************************************)
(* Properties of makeRequest                                               *)
(***************************************************************************)
\* an HTTP response with a 4xx status other than 429
ClientError(e) ==
    e.response /\ e.status >= 400 /\ e.status < 500 /\ e.status # 429

\* C40: makeRequest ends, returned or raised; it makes at most retries + 1
\* attempts, 4 by default; an attempt that fails with a 4xx response other
\* than 429 raises at once, so such a failure of the first attempt is raised
\* after one attempt; and once an attempt has succeeded or the error was
\* raised nothing more is attempted.
C40_MakeRequestEnds ==
    /\ <>(util.outcome # "pending")
    /\ [](/\ util.attempts <= util.retries + 1
          /\ util.attempts <= retryAttempts + 1
          /\ (util.outcome = "raised" /\ ~ClientError(util.error)
                /\ util.error.status # 304)
                => util.attempts = util.retries + 1)
    /\ [][/\ (util.outcome = "pending" /\ ~util.delaying
                /\ util'.error # util.error /\ ClientError(util'.error))
              => (util'.outcome = "raised" /\ util'.attempts = util.attempts)
          /\ util.outcome # "pending" => util' = util]_vars

\* the default call failed three times with retried errors and then raised
\* the error of its fourth attempt
C40_Witness ==
    /\ util.kind = "request"
    /\ util.retries = retryAttempts
    /\ util.attempts = retryAttempts + 1
    /\ util.outcome = "raised"
    /\ util.error.status = 503

====
